---- MODULE Spec2Model ----
(***************************************************************************)
(* Model of the tmux control-mode command controller of Konsole's          *)
(* Vt102Emulation.h: TmuxCommand, TmuxServerManager and the session table. *)
(* Strings that the code builds or parses are sequences of one-character   *)
(* strings; QString names that are only stored are TLA+ strings.           *)
(***************************************************************************)
EXTENDS Integers, Sequences, FiniteSets, TLC

(* ------------------------------ bounds --------------------------------- *)
\* number of sendCommand calls made by callers of the manager
MaxSend == 1
\* m_activeSession{-1} in the constructor's initialiser list
InitialActiveSession == -1

\* session ids carried by %session-changed
SessionIds == {0, 1}
Names == {"main", "work"}
UserTexts == {<<"k", "i", "l", "l">>}
\* response bodies: QList<QVector<uint>>, a list of lines
Bodies == {<<>>, << <<"5", ",", "7">> >>}
\* widths and heights that a @konsole_size option carries
SizeValues == {5, 12}
\* lines that answer a size query without being "<W>,<H>"
MalformedSizeLines == {<<>>, <<"5">>, <<"5", ",">>, <<",", "7">>,
                       <<"5", ",", "7", ",", "1">>, <<"5", "x", "7">>, <<"5", ",", "x">>}

(* --------------------------- TmuxCommand ------------------------------- *)
\* std::function<> that holds nothing (nullptr)
NullHandler == [kind |-> "null", session |-> InitialActiveSession]
UserHandler == [kind |-> "user", session |-> InitialActiveSession]
\* the lambda installed by the constructor when no error handler is given
DefaultErrorHandler == [kind |-> "defaultError", session |-> InitialActiveSession]
\* tmuxAttachHandler: logs unhandled data, changes nothing
AttachHandler == [kind |-> "attach", session |-> InitialActiveSession]
\* the lambda [this, session] of receiveSessionChanged
SizeHandler(session) == [kind |-> "size", session |-> session]
\* the lambda [this] of init
LsHandler == [kind |-> "ls", session |-> InitialActiveSession]

\* TmuxCommand(): every member value-initialised
DefaultCommand ==
    [id |-> -1, command |-> <<>>, responseHandler |-> NullHandler, errorHandler |-> NullHandler]

\* TmuxCommand(command, responseHandler, errorHandler); id is a ghost tag
\* (the ordinal of the sendCommand call) that the code does not have
TmuxCommand(id, command, responseHandler, errorHandler) ==
    [id |-> id,
     command |-> command,
     responseHandler |-> responseHandler,
     errorHandler |-> IF errorHandler = NullHandler THEN DefaultErrorHandler ELSE errorHandler]

\* TmuxCommand::operator bool
CommandBool(c) == c.responseHandler # NullHandler /\ c.errorHandler # NullHandler

\* The default error lambda captures `this` of the TmuxCommand under
\* construction; every command the manager stores is a copy of that object
\* (sendCommand copies a temporary, the constructor copies the placeholder), so
\* the lambda reads m_command through a dangling pointer: it may return after
\* logging garbage (FALSE) or take the process down (TRUE).
ErrorHandlerCrashes(h) == IF h = DefaultErrorHandler THEN {FALSE, TRUE} ELSE {FALSE}

\* TmuxCommand::execute: the command after its response handler has run
execute(c) == [c EXCEPT !.responseHandler = NullHandler]

\* executeError under a slip that keeps the handler
executeErrorKeepsHandler(c) == c

\* TmuxCommand::executeError: the command after its error handler has run
executeError(c) == [c EXCEPT !.errorHandler = NullHandler]

(* --------------------------- conversions ------------------------------- *)
DigitChars == <<"0", "1", "2", "3", "4", "5", "6", "7", "8", "9">>

\* cc >= 0x30 && cc <= 0x39
IsDigit(cc) == \E d \in 1..10 : DigitChars[d] = cc

\* cc - 0x30
DigitValue(cc) == (CHOOSE d \in 1..10 : DigitChars[d] = cc) - 1

RECURSIVE NatToChars(_)
NatToChars(n) ==
    IF n < 10 THEN <<DigitChars[n + 1]>>
    ELSE NatToChars(n \div 10) \o <<DigitChars[(n % 10) + 1]>>

\* QString::arg(int): decimal text of a signed integer
IntToChars(n) == IF n < 0 THEN <<"-">> \o NatToChars(-n) ELSE NatToChars(n)

\* QString("show -v -q -t $%1 @konsole_size").arg(n)
SizeQueryText(n) ==
    <<"s","h","o","w"," ","-","v"," ","-","q"," ","-","t"," ","$">>
    \o IntToChars(n)
    \o <<" ","@","k","o","n","s","o","l","e","_","s","i","z","e">>

(* ----------------------------- sessions -------------------------------- *)
\* a TmuxSessionManager whose GUI size has not been configured
NoSize == <<-1, -1>>

\* new TmuxSessionManager(name)
TmuxSessionManager(name) == [name |-> name, size |-> NoSize]

\* TmuxSessionManager::setGuiWindowSize
setGuiWindowSize(rec, width, height) == [rec EXCEPT !.size = <<width, height>>]

\* the loop of the size lambda over response[0]; st = [arg, width, height, ok]
RECURSIVE ParseSize(_, _)
ParseSize(line, st) ==
    IF line = <<>> THEN st
    ELSE LET cc == Head(line) IN
         IF IsDigit(cc)
         THEN ParseSize(Tail(line),
                        IF st.arg = 0
                        THEN [st EXCEPT !.width = st.width * 10 + DigitValue(cc)]
                        ELSE [st EXCEPT !.height = st.height * 10 + DigitValue(cc)])
         ELSE IF st.arg = 0 /\ cc = ","
         THEN ParseSize(Tail(line), [st EXCEPT !.arg = st.arg + 1])
         ELSE [st EXCEPT !.ok = FALSE]

\* the size lambda of receiveSessionChanged applied to a response
SizeResponse(session, response, sessions) ==
    IF Len(response) = 1
    THEN LET st == ParseSize(response[1], [arg |-> 0, width |-> 0, height |-> 0, ok |-> TRUE])
         IN IF st.ok
            THEN [sessions EXCEPT ![session] = setGuiWindowSize(@, st.width, st.height)]
            ELSE sessions
    ELSE sessions

\* QString("ls -F '#{session_id} #{q:session_name}'")
LsText ==
    <<"l","s"," ","-","F"," ","'","#","{","s","e","s","s","i","o","n","_","i","d","}"," ",
      "#","{","q",":","s","e","s","s","i","o","n","_","n","a","m","e","}","'">>

\* the code points of a session name
NameChars(name) ==
    IF name = "main" THEN <<"m", "a", "i", "n">>
    ELSE IF name = "work" THEN <<"w", "o", "r", "k">>
    ELSE <<>>

\* QString::fromUcs4 of a name's code points
QStringFromUcs4(chars) ==
    IF \E n \in Names : NameChars(n) = chars
    THEN CHOOSE n \in Names : NameChars(n) = chars
    ELSE "?"

\* a line of the answer to `ls -F '#{session_id} #{q:session_name}'`
FormatLsLine(session, name) == <<"$">> \o NatToChars(session) \o <<" ">> \o NameChars(name)

\* the inner loop of updateSessions over one line; st = [counter, i, session]
RECURSIVE ScanSessionLine(_, _)
ScanSessionLine(sessionString, st) ==
    IF sessionString = <<>> THEN st
    ELSE LET cc == Head(sessionString) IN
         ScanSessionLine(Tail(sessionString),
             IF st.counter = 0 /\ cc = "$"
             THEN [st EXCEPT !.counter = st.counter + 1, !.i = st.i + 1]
             ELSE IF st.counter = 1 /\ IsDigit(cc)
             THEN [st EXCEPT !.session = st.session * 10 + DigitValue(cc), !.i = st.i + 1]
             ELSE IF st.counter = 1 /\ cc = " "
             THEN [st EXCEPT !.counter = st.counter + 1, !.i = st.i + 1]
             ELSE st)

\* the local vector updatedSessions that updateSessions builds: one
\* (session, name) pair per line (every line of an `ls` answer passes the
\* Q_ASSERT(counter == 2))
UpdatedSessions(response) ==
    [k \in 1..Len(response) |->
        LET sessionString == response[k]
            st == ScanSessionLine(sessionString, [counter |-> 0, i |-> 0, session |-> 0])
        IN <<st.session,
             QStringFromUcs4(SubSeq(sessionString, st.i + 1, Len(sessionString)))>>]

\* TmuxServerManager::updateSessions: the session table after the call.  The
\* vector is a local that goes out of scope at the closing brace; nothing
\* copies it into m_sessions.
updateSessions(response, sessions) ==
    LET updatedSessions == UpdatedSessions(response) IN sessions

\* m_responseHandler(std::move(r)): the session table after the handler ran
RunResponseHandler(h, response, sessions) ==
    IF h.kind = "size" THEN SizeResponse(h.session, response, sessions)
    ELSE IF h.kind = "ls" THEN updateSessions(response, sessions)
    ELSE sessions

(* ------------------------------ state ---------------------------------- *)
VARIABLES
    m_currentCommand,   \* TmuxCommand in the in-flight slot
    m_pendingCommands,  \* QQueue<TmuxCommand>
    m_sessions,         \* QHash<int, TmuxSessionManager>
    m_activeSession,    \* int
    m_initComplete,     \* bool
    crashed,            \* the process died inside a handler
    sent,               \* ghost: the doSendCommand emissions, in order
    invoked,            \* ghost: the handler invocations, in order
    delivered,          \* ghost: the bodies handed to handlers by the last operation
    nAnswered,          \* ghost: emissions the stream has answered so far
    nextId,             \* ghost: ordinal of the next sendCommand call
    nUser,              \* ghost: sendCommand calls made by callers
    last                \* ghost: the last operation and what it saw

\* the state of the manager
managerVars == <<m_currentCommand, m_pendingCommands, m_sessions, m_activeSession,
                 m_initComplete, crashed, sent, invoked, delivered, nAnswered, nextId, nUser,
                 last>>

VARIABLES
    idCall,             \* a call of parseTmuxId: its arguments and what it returned
    stream,             \* the notification lines the tmux server writes
    lineNo,             \* how many lines of the stream have been taken up
    line,               \* code points of the current line still to be pushed
    notification,       \* _tmuxNotificationVariant
    received            \* the receive* calls made on the manager, in order

\* the state of the notification parsers
notificationVars == <<idCall, stream, lineNo, line, notification, received>>

VARIABLES
    _state,             \* ParserStates _state
    _ignore,            \* bool _ignore
    _nIntermediate,     \* int _nIntermediate
    _intermediate,      \* unsigned char _intermediate[1] (0: nothing collected)
    privateMarker,      \* the private-marker byte of the sequence (0: none)
    params,             \* the anonymous struct params
    modes,              \* _currentModes.mode
    _charset,           \* CharCodes _charset[2]
    tmuxLine,           \* _tmuxNotificationLine: the control-mode line being read
    _pendingSessionAttributesUpdates,  \* QHash<int, QString>, as a function
    timerActive,        \* _sessionAttributesUpdateTimer is running
    emitted,            \* ghost: the sessionAttributeChanged signals, in order
    written,            \* ghost: what toReceive was written from
    lastCall,           \* ghost: the call made last on the emulation
    nCalls,             \* ghost: how many reset and timer calls were made
    tokenBuffer,        \* uint tokenBuffer[MAX_TOKEN_LENGTH]: the code points written
    tokenBufferPos,     \* int tokenBufferPos
    dispatched,         \* ghost: the parameter lists that csi_dispatch handed over
    toReceive,          \* the bytes of a sequence that receive is passed one by one
    nReceived           \* ghost: how many bytes receive has taken

\* the state of the VT parser
vtVars == <<_state, _ignore, _nIntermediate, _intermediate, privateMarker, params, modes,
            _charset, tmuxLine, _pendingSessionAttributesUpdates, timerActive, emitted,
            written, lastCall, nCalls, tokenBuffer, tokenBufferPos, dispatched, toReceive,
            nReceived>>

\* the state of the emulation outside the manager
parserVars == <<notificationVars, vtVars>>

vars == <<managerVars, parserVars>>

\* no parseTmuxId call
NoIdCall == [C |-> 0, lexBuffer |-> <<>>, returned |-> FALSE, ret |-> 0, ok |-> FALSE]

\* TmuxNullNotification, the first alternative of TmuxNotificationVariant
TmuxNullNotification ==
    [kind |-> "Null", arg |-> 0, octParse |-> 0, octParseChar |-> 0, lexBuffer |-> <<>>,
     pane |-> 0, age |-> 0, window |-> 0, session |-> 0, client |-> <<>>,
     windowLayout |-> <<>>, windowVisibleLayout |-> <<>>,
     state |-> "None", commandResponse |-> <<>>]

\* MAXARGS under an off-by-one slip
MAXARGSOffByOne == 16 + 1

\* #define MAXARGS 16
MAXARGS == 16

\* the modes this header defines, MODES_SCREEN + 0 .. MODES_SCREEN + 15 (the
\* modes below MODES_SCREEN belong to Screen.h)
Modes ==
    {"MODE_AppCuKeys", "MODE_AppKeyPad", "MODE_Mouse1000", "MODE_Mouse1001",
     "MODE_Mouse1002", "MODE_Mouse1003", "MODE_Mouse1005", "MODE_Mouse1006",
     "MODE_Mouse1007", "MODE_Mouse1015", "MODE_Ansi", "MODE_132Columns",
     "MODE_Allow132Columns", "MODE_BracketedPaste", "MODE_Sixel", "MODE_Tmux"}

\* TerminalState::mode with exactly the modes of set true
ModesSet(set) == [mode \in Modes |-> mode \in set]

\* struct CharCodes after resetCharset: US ASCII in the four slots, G0 invoked
DefaultCharCodes ==
    [charset |-> <<66, 66, 66, 66>>, cu_cs |-> 0, graphic |-> FALSE, pound |-> FALSE,
     sa_graphic |-> FALSE, sa_pound |-> FALSE]

\* an empty QHash<int, QString>
NoAttributes == [id \in {} |-> <<>>]

\* no call yet
NoCall == [op |-> "none", softReset |-> FALSE, again |-> FALSE, before |-> ModesSet({})]

\* MAX_TOKEN_LENGTH under an off-by-one slip
MAX_TOKEN_LENGTHOffByOne == 256 + 1

\* #define MAX_TOKEN_LENGTH 256
MAX_TOKEN_LENGTH == 256

\* struct subParam, cleared: value holds the entries in use, value[1..count]
\* (value[0] is unused)
NoSubParam == [value |-> <<>>, count |-> 0]

\* params = {}: value and sub hold the entries in use
NoParams == [value |-> <<>>, sub |-> <<>>, count |-> 0, hasSubParams |-> FALSE]

\* the VT parser of a fresh emulation that has received nothing
VtIdle ==
    /\ _state = "Ground"
    /\ _ignore = FALSE
    /\ _nIntermediate = 0
    /\ _intermediate = 0
    /\ privateMarker = 0
    /\ params = NoParams
    /\ modes = ModesSet({"MODE_Ansi"})
    /\ _charset = <<DefaultCharCodes, DefaultCharCodes>>
    /\ tmuxLine = <<>>
    /\ _pendingSessionAttributesUpdates = NoAttributes
    /\ timerActive = FALSE
    /\ emitted = <<>>
    /\ written = <<>>
    /\ lastCall = NoCall
    /\ nCalls = 0
    /\ tokenBuffer = <<>>
    /\ tokenBufferPos = 0
    /\ dispatched = <<>>
    /\ toReceive = <<>>
    /\ nReceived = 0

\* the emulation is not reading a notification
NotificationsIdle ==
    /\ idCall = NoIdCall
    /\ stream = <<>>
    /\ lineNo = 0
    /\ line = <<>>
    /\ notification = TmuxNullNotification
    /\ received = <<>>

\* the emulation has received nothing
ParsersIdle == NotificationsIdle /\ VtIdle

\* TmuxServerManager::TmuxServerManager
TmuxServerManagerInit ==
    /\ m_currentCommand = DefaultCommand
    /\ m_pendingCommands = <<TmuxCommand(0, <<>>, AttachHandler, NullHandler)>>
    /\ m_sessions = [s \in {} |-> TmuxSessionManager("main")]
    /\ m_activeSession = InitialActiveSession
    /\ m_initComplete = FALSE
    /\ crashed = FALSE
    /\ sent = <<>>
    /\ invoked = <<>>
    /\ delivered = <<>>
    /\ nAnswered = 0
    /\ nextId = 1
    /\ nUser = 0
    /\ last = [op |-> "construct", inFlight |-> FALSE, queued |-> TRUE, existed |-> FALSE,
               body |-> <<>>, session |-> InitialActiveSession, name |-> ""]

\* a fresh manager in an emulation that is not reading a notification
Init == TmuxServerManagerInit /\ ParsersIdle

\* emit doSendCommand(c.command())
doSendCommand(log, c) == Append(log, [id |-> c.id, command |-> c.command])

\* emitted commands that the stream has not answered yet; the stream answers
\* emitted commands in emission order
Outstanding == Len(sent) - nAnswered

\* what an operation saw when it was called
Saw(op, body, session, name) ==
    [op |-> op,
     inFlight |-> CommandBool(m_currentCommand),
     queued |-> Len(m_pendingCommands) > 0,
     existed |-> session \in DOMAIN m_sessions,
     body |-> body,
     session |-> session,
     name |-> name]

\* a %end or %error line of the stream answers the oldest unanswered emission
StreamAnswers == nAnswered' = IF Outstanding > 0 THEN nAnswered + 1 ELSE nAnswered

\* sendCommand under a slip that always enqueues
sendCommandAlwaysQueue(command) ==
    /\ m_pendingCommands' = Append(m_pendingCommands, command)
    /\ UNCHANGED <<m_currentCommand, sent>>

\* TmuxServerManager::sendCommand, the body of the slot
sendCommand(command) ==
    IF ~CommandBool(m_currentCommand)
    THEN /\ m_currentCommand' = command
         /\ sent' = doSendCommand(sent, command)
         /\ UNCHANGED m_pendingCommands
    ELSE /\ m_pendingCommands' = Append(m_pendingCommands, command)
         /\ UNCHANGED <<m_currentCommand, sent>>

\* a caller of the manager invokes the slot sendCommand with a command it built,
\* with or without a response handler
SendCommand ==
    \E text \in UserTexts, withHandler \in BOOLEAN :
        /\ ~crashed
        /\ nUser < MaxSend
        /\ sendCommand(TmuxCommand(nextId, text,
                                   IF withHandler THEN UserHandler ELSE NullHandler,
                                   NullHandler))
        /\ nextId' = nextId + 1
        /\ nUser' = nUser + 1
        /\ last' = Saw("sendCommand", <<>>, InitialActiveSession, "")
        /\ delivered' = <<>>
        /\ UNCHANGED <<m_sessions, m_activeSession, m_initComplete, crashed, invoked, nAnswered>>
        /\ UNCHANGED parserVars

\* receiveCommandError under a slip that runs the queue head without a command in flight
receiveCommandErrorNoGuard(response) ==
    /\ IF CommandBool(m_currentCommand)
       THEN /\ invoked' = Append(invoked, [id |-> m_currentCommand.id, handler |-> "error"])
            /\ delivered' = <<response>>
            /\ crashed' \in ErrorHandlerCrashes(m_currentCommand.errorHandler)
            /\ m_currentCommand' = IF crashed' THEN m_currentCommand
                                   ELSE executeError(m_currentCommand)
            /\ UNCHANGED m_pendingCommands
       ELSE IF Len(m_pendingCommands) > 0
       THEN /\ invoked' = Append(invoked, [id |-> Head(m_pendingCommands).id, handler |-> "error"])
            /\ delivered' = <<response>>
            /\ m_pendingCommands' = Tail(m_pendingCommands)
            /\ UNCHANGED <<m_currentCommand, crashed>>
       ELSE /\ delivered' = <<>>
            /\ UNCHANGED <<invoked, m_currentCommand, m_pendingCommands, crashed>>
    /\ UNCHANGED <<sent, m_sessions, m_activeSession>>

\* TmuxServerManager::receiveCommandError
receiveCommandError(response) ==
    /\ IF CommandBool(m_currentCommand)
       THEN /\ invoked' = Append(invoked, [id |-> m_currentCommand.id, handler |-> "error"])
            /\ delivered' = <<response>>
            /\ crashed' \in ErrorHandlerCrashes(m_currentCommand.errorHandler)
            /\ m_currentCommand' = IF crashed' THEN m_currentCommand
                                   ELSE executeError(m_currentCommand)
       ELSE /\ delivered' = <<>>
            /\ UNCHANGED <<invoked, m_currentCommand, crashed>>
    /\ UNCHANGED <<m_pendingCommands, sent, m_sessions, m_activeSession>>

\* the stream delivers %begin ... %error
ReceiveCommandError ==
    \E response \in Bodies :
        /\ ~crashed
        /\ receiveCommandError(response)
        /\ StreamAnswers
        /\ last' = Saw("receiveCommandError", response, InitialActiveSession, "")
        /\ UNCHANGED <<m_initComplete, nextId, nUser>>
        /\ UNCHANGED parserVars

\* receiveCommandResponse under a slip that leaves the queue alone
receiveCommandResponseNoAdvance(response) ==
    /\ IF CommandBool(m_currentCommand)
       THEN /\ invoked' = Append(invoked, [id |-> m_currentCommand.id, handler |-> "response"])
            /\ delivered' = <<response>>
            /\ m_sessions' = RunResponseHandler(m_currentCommand.responseHandler,
                                                response, m_sessions)
            /\ m_currentCommand' = execute(m_currentCommand)
       ELSE /\ delivered' = <<>>
            /\ UNCHANGED <<invoked, m_sessions, m_currentCommand>>
    /\ UNCHANGED <<m_pendingCommands, sent, m_activeSession>>

\* TmuxServerManager::receiveCommandResponse
receiveCommandResponse(response) ==
    /\ IF CommandBool(m_currentCommand)
       THEN /\ invoked' = Append(invoked, [id |-> m_currentCommand.id, handler |-> "response"])
            /\ delivered' = <<response>>
            /\ m_sessions' = RunResponseHandler(m_currentCommand.responseHandler,
                                                response, m_sessions)
            /\ IF Len(m_pendingCommands) > 0
               THEN /\ m_currentCommand' = Head(m_pendingCommands)
                    /\ m_pendingCommands' = Tail(m_pendingCommands)
                    /\ sent' = doSendCommand(sent, Head(m_pendingCommands))
               ELSE /\ m_currentCommand' = execute(m_currentCommand)
                    /\ UNCHANGED <<m_pendingCommands, sent>>
       ELSE /\ delivered' = <<>>
            /\ UNCHANGED <<invoked, m_sessions, m_currentCommand, m_pendingCommands, sent>>
    /\ UNCHANGED m_activeSession

\* the stream delivers %begin ... %end
ReceiveCommandResponse ==
    \E response \in Bodies :
        /\ ~crashed
        /\ receiveCommandResponse(response)
        /\ StreamAnswers
        /\ last' = Saw("receiveCommandResponse", response, InitialActiveSession, "")
        /\ UNCHANGED <<m_initComplete, crashed, nextId, nUser>>
        /\ UNCHANGED parserVars

\* receiveSessionChanged under a slip that never renames an existing record
receiveSessionChangedNoRename(session, name) ==
    /\ IF session \in DOMAIN m_sessions
       THEN UNCHANGED <<m_sessions, m_currentCommand, m_pendingCommands, sent, nextId>>
       ELSE /\ m_sessions' = [s \in DOMAIN m_sessions \cup {session} |->
                                 IF s = session THEN TmuxSessionManager(name)
                                 ELSE m_sessions[s]]
            /\ sendCommand(TmuxCommand(nextId, SizeQueryText(m_activeSession),
                                       SizeHandler(session), NullHandler))
            /\ nextId' = nextId + 1
    /\ m_activeSession' = session

\* receiveSessionChanged under a slip that asks for the size on every call
receiveSessionChangedAlwaysQueries(session, name) ==
    /\ m_sessions' = [s \in DOMAIN m_sessions \cup {session} |->
                          IF s = session
                          THEN IF s \in DOMAIN m_sessions
                               THEN [m_sessions[s] EXCEPT !.name = name]
                               ELSE TmuxSessionManager(name)
                          ELSE m_sessions[s]]
    /\ sendCommand(TmuxCommand(nextId, SizeQueryText(m_activeSession),
                               SizeHandler(session), NullHandler))
    /\ nextId' = nextId + 1
    /\ m_activeSession' = session

\* TmuxServerManager::receiveSessionChanged
receiveSessionChanged(session, name) ==
    /\ IF session \in DOMAIN m_sessions
       THEN /\ m_sessions' = [m_sessions EXCEPT ![session].name = name]
            /\ UNCHANGED <<m_currentCommand, m_pendingCommands, sent, nextId>>
       ELSE /\ m_sessions' = [s \in DOMAIN m_sessions \cup {session} |->
                                 IF s = session THEN TmuxSessionManager(name)
                                 ELSE m_sessions[s]]
            /\ sendCommand(TmuxCommand(nextId, SizeQueryText(m_activeSession),
                                       SizeHandler(session), NullHandler))
            /\ nextId' = nextId + 1
    /\ m_activeSession' = session

\* the stream delivers %session-changed $<session> <name>
ReceiveSessionChanged ==
    \E session \in SessionIds, name \in Names :
        /\ ~crashed
        /\ receiveSessionChanged(session, name)
        /\ last' = Saw("receiveSessionChanged", <<>>, session, name)
        /\ delivered' = <<>>
        /\ UNCHANGED <<m_initComplete, crashed, invoked, nAnswered, nUser>>
        /\ UNCHANGED parserVars

\* init() has been called: its command is in the slot, in the queue or went out
InitCalled ==
    \/ \E i \in 1..Len(sent) : sent[i].command = LsText
    \/ \E i \in 1..Len(m_pendingCommands) : m_pendingCommands[i].command = LsText

\* the emulation calls TmuxServerManager::init, once
CallInit ==
    /\ ~crashed
    /\ ~InitCalled
    /\ sendCommand(TmuxCommand(nextId, LsText, LsHandler, NullHandler))
    /\ nextId' = nextId + 1
    /\ last' = Saw("init", <<>>, InitialActiveSession, "")
    /\ delivered' = <<>>
    /\ UNCHANGED <<m_sessions, m_activeSession, m_initComplete, crashed, invoked, nAnswered, nUser>>
    /\ UNCHANGED parserVars

\* answers of the tmux server to `ls`: one line per session
LsBodies ==
    {<<>>}
    \cup {<<FormatLsLine(s, n)>> : s \in SessionIds, n \in Names}
    \cup {<<FormatLsLine(0, n), FormatLsLine(1, m)>> : n, m \in Names}

\* answers of the tmux server to `show -v -q -t $<id> @konsole_size`: nothing
\* when the option is unset, else one line
SizeText(width, height) == NatToChars(width) \o <<",">> \o NatToChars(height)

SizeBodies ==
    {<<>>}
    \cup {<<SizeText(w, h)>> : w, h \in SizeValues}
    \cup {<<l>> : l \in MalformedSizeLines}

\* the stream delivers %begin ... %end with the answer to `ls` or to a size query
ReceiveSessionResponse ==
    \E response \in LsBodies \cup SizeBodies :
        /\ ~crashed
        /\ receiveCommandResponse(response)
        /\ StreamAnswers
        /\ last' = Saw("receiveCommandResponse", response, InitialActiveSession, "")
        /\ UNCHANGED <<m_initComplete, crashed, nextId, nUser>>
        /\ UNCHANGED parserVars

Next ==
    \/ SendCommand
    \/ ReceiveCommandResponse
    \/ ReceiveCommandError
    \/ ReceiveSessionChanged

Spec == Init /\ [][Next]_vars

\* the manager as the emulation drives it on attaching: init(), the
\* %session-changed notifications and the answers to the commands they issue
SessionNext ==
    \/ CallInit
    \/ ReceiveSessionResponse
    \/ ReceiveSessionChanged

SessionSpec == Init /\ [][SessionNext]_vars

\* the stream answers an emitted command with %end or %error
StreamReplies == Outstanding > 0 /\ (ReceiveCommandResponse \/ ReceiveCommandError)

\* the manager under a stream that eventually answers every emitted command
LiveSpec == Init /\ [][Next]_vars /\ WF_vars(StreamReplies)

(* ------------------------- derived observations ------------------------ *)
\* ids of the commands whose text went out through doSendCommand
SentIds == {sent[i].id : i \in 1..Len(sent)}

\* ids of the commands sendCommand has accepted so far
AcceptedIds == 1 .. (nextId - 1)

\* largest id a command can get within the bounds
MaxId == MaxSend + Cardinality(SessionIds)

\* ids of the queued commands, the attach placeholder (id 0) left out
QueuedIds == SelectSeq([i \in 1..Len(m_pendingCommands) |-> m_pendingCommands[i].id],
                       LAMBDA id : id # 0)

\* ids of the commands whose handler ran, the attach placeholder left out
InvokedIds == SelectSeq([i \in 1..Len(invoked) |-> invoked[i].id], LAMBDA id : id # 0)

Increasing(seq) == \A i, j \in 1..Len(seq) : i < j => seq[i] < seq[j]

\* the command a step has just passed to sendCommand
Issued == IF m_currentCommand'.id = nextId THEN m_currentCommand'
          ELSE m_pendingCommands'[Len(m_pendingCommands')]

(* ------------------------------- claims -------------------------------- *)

\* C1: at most one emitted command is unanswered, and every accepted command
\* that has not been emitted sits in the pending queue in insertion order.
AtMostOneInFlight ==
    /\ Outstanding <= 1
    /\ {QueuedIds[i] : i \in 1..Len(QueuedIds)} = AcceptedIds \ SentIds
    /\ Increasing(QueuedIds)

\* C2: commands are emitted in the order sendCommand accepted them, and their
\* handlers run in that order.
CommandFIFO ==
    /\ \A i \in 1..Len(sent) :
          \A id \in 1..(sent[i].id - 1) : \E j \in 1..(i - 1) : sent[j].id = id
    /\ Increasing(InvokedIds)

\* C3: %error with a command in flight runs its error handler on the body,
\* clears the slot and advances the queue (the head of a nonempty queue
\* becomes the in-flight command and is emitted), whenever the handler returns.
ErrorAdvancesQueue ==
    [][(last'.op = "receiveCommandError" /\ last'.inFlight /\ ~crashed') =>
          /\ delivered' = <<last'.body>>
          /\ invoked' = Append(invoked, [id |-> m_currentCommand.id, handler |-> "error"])
          /\ IF Len(m_pendingCommands) > 0
             THEN /\ m_currentCommand' = Head(m_pendingCommands)
                  /\ m_pendingCommands' = Tail(m_pendingCommands)
                  /\ sent' = Append(sent, [id |-> Head(m_pendingCommands).id,
                                           command |-> Head(m_pendingCommands).command])
             ELSE /\ ~CommandBool(m_currentCommand')
                  /\ sent' = sent]_vars

\* C4: %end with a command in flight runs its response handler exactly once on
\* the body; then the head of a nonempty queue leaves the queue, becomes the
\* in-flight command and is emitted once; with an empty queue the slot is
\* empty and nothing is emitted.
ResponseAdvancesQueue ==
    [][(last'.op = "receiveCommandResponse" /\ last'.inFlight) =>
          /\ delivered' = <<last'.body>>
          /\ invoked' = Append(invoked, [id |-> m_currentCommand.id, handler |-> "response"])
          /\ IF Len(m_pendingCommands) > 0
             THEN /\ m_currentCommand' = Head(m_pendingCommands)
                  /\ m_pendingCommands' = Tail(m_pendingCommands)
                  /\ sent' = Append(sent, [id |-> Head(m_pendingCommands).id,
                                           command |-> Head(m_pendingCommands).command])
             ELSE /\ ~CommandBool(m_currentCommand')
                  /\ m_pendingCommands' = <<>>
                  /\ sent' = sent]_vars

\* C4 witness: a response arrived for a command in flight while an accepted
\* command was queued behind the placeholder, and the handler got the body.
ResponseAdvancedQueue ==
    /\ last.op = "receiveCommandResponse"
    /\ last.inFlight
    /\ last.queued
    /\ last.body # <<>>
    /\ delivered = <<last.body>>
    /\ Len(m_pendingCommands) > 0

\* C5: sendCommand(c) with no command in flight puts c in the slot, emits its
\* text once and leaves the queue alone; with a command in flight it emits
\* nothing, leaves the slot alone and appends c at the tail of the queue.
SendCommandContract ==
    [][(nextId' = nextId + 1) =>
          IF ~CommandBool(m_currentCommand)
          THEN /\ m_currentCommand'.id = nextId
               /\ sent' = Append(sent, [id |-> nextId, command |-> m_currentCommand'.command])
               /\ m_pendingCommands' = m_pendingCommands
          ELSE /\ sent' = sent
               /\ m_currentCommand' = m_currentCommand
               /\ Len(m_pendingCommands') = Len(m_pendingCommands) + 1
               /\ SubSeq(m_pendingCommands', 1, Len(m_pendingCommands)) = m_pendingCommands
               /\ m_pendingCommands'[Len(m_pendingCommands')].id = nextId]_vars

\* C5 witness: a caller's command was appended behind a queued command.
SendCommandQueued ==
    /\ last.op = "sendCommand"
    /\ last.inFlight
    /\ Len(m_pendingCommands) >= 2
    /\ m_pendingCommands[Len(m_pendingCommands)].id = nextId - 1

\* C6: every accepted command is eventually emitted when the stream answers
\* every emitted command, as long as the process lives.
EveryAcceptedCommandIsSent ==
    \A id \in 1..MaxId : (id \in AcceptedIds) ~> (id \in SentIds \/ crashed)

\* C7: the slot tests true exactly when one emitted command awaits its reply.
InFlightIffAwaiting == CommandBool(m_currentCommand) <=> (Outstanding = 1)

\* C8: %end or %error with no command in flight runs no handler, emits nothing
\* and leaves the slot, the queue, the session table and the active session as
\* they were.
DesyncChangesNothing ==
    [][(last'.op \in {"receiveCommandResponse", "receiveCommandError"} /\ ~last'.inFlight) =>
          /\ delivered' = <<>>
          /\ UNCHANGED <<invoked, sent, m_currentCommand, m_pendingCommands,
                         m_sessions, m_activeSession>>]_vars

\* C8 witness: a %error arrived with nothing in flight while commands were
\* queued and a session existed.
DesyncErrorSeen ==
    /\ last.op = "receiveCommandError"
    /\ ~last.inFlight
    /\ Len(m_pendingCommands) >= 2
    /\ DOMAIN m_sessions # {}

\* C9: receiveSessionChanged(id, name) leaves a record for id named name,
\* makes id the active session and leaves every other record as it was; an
\* existing record keeps everything but its name.
SessionChangedUpserts ==
    [][(last'.op = "receiveSessionChanged") =>
          /\ DOMAIN m_sessions' = DOMAIN m_sessions \cup {last'.session}
          /\ m_sessions'[last'.session].name = last'.name
          /\ m_activeSession' = last'.session
          /\ \A s \in DOMAIN m_sessions :
                IF s = last'.session
                THEN m_sessions'[s].size = m_sessions[s].size
                ELSE m_sessions'[s] = m_sessions[s]]_vars

\* C9 witness: an existing session was renamed while another session existed.
SessionRenamed ==
    /\ last.op = "receiveSessionChanged"
    /\ last.existed
    /\ Cardinality(DOMAIN m_sessions) = 2
    /\ \E s \in DOMAIN m_sessions : m_sessions[s].name # last.name

\* C10: the size query issued for a newly created session names that session.
SizeQueryNamesNewSession ==
    [][(last'.op = "receiveSessionChanged" /\ ~last'.existed) =>
          Issued.command = SizeQueryText(last'.session)]_vars

(* ------------------------- session table claims ------------------------ *)
\* the command whose response handler the last operation ran
AnsweredCommand == sent[CHOOSE i \in 1..Len(sent) : sent[i].id = invoked[Len(invoked)].id]

\* the last operation was a %end that ran the response handler of `ls`
LsAnswered ==
    /\ last.op = "receiveCommandResponse"
    /\ last.inFlight
    /\ AnsweredCommand.command = LsText

\* C11: once the answer to the `ls` of init() has arrived with %end, every
\* line `$<id> <name>` of it is in the session table: the table maps <id> to a
\* record named <name>.
SessionsListed ==
    LsAnswered =>
        \A session \in SessionIds, name \in Names :
            (\E k \in 1..Len(last.body) : last.body[k] = FormatLsLine(session, name))
            => /\ session \in DOMAIN m_sessions
               /\ m_sessions[session].name = name

\* the body is one line "<W>,<H>"
IsSizeBody(body) == \E w, h \in SizeValues : body = <<SizeText(w, h)>>

\* C12: a %end that answers the size query of a session with the one line
\* "<W>,<H>" sets the size of that session's record, and of no other, to
\* (W, H); an empty answer or a line of another form changes no size.
SizeAnswerConfigures ==
    [][(/\ last'.op = "receiveCommandResponse"
        /\ last'.inFlight
        /\ m_currentCommand.responseHandler.kind = "size")
       => LET session == m_currentCommand.responseHandler.session
              body == last'.body
          IN /\ DOMAIN m_sessions' = DOMAIN m_sessions
             /\ \A s \in DOMAIN m_sessions :
                    m_sessions'[s].size =
                        IF s = session /\ IsSizeBody(body)
                        THEN CHOOSE wh \in SizeValues \X SizeValues :
                                 body = <<SizeText(wh[1], wh[2])>>
                        ELSE m_sessions[s].size]_vars

\* how often a handler of the command with this id has run
TimesInvoked(log, id) == Cardinality({i \in 1..Len(log) : log[i].id = id})

\* C28: of the two handlers of a command at most one is ever invoked, and
\* at most once; a %end or %error that arrives while the slot still holds a
\* command whose handler has run invokes nothing.
HandlerRunsAtMostOnce ==
    [][/\ \A id \in 0..MaxId : TimesInvoked(invoked', id) <= 1
       /\ (/\ last'.op \in {"receiveCommandResponse", "receiveCommandError"}
           /\ TimesInvoked(invoked, m_currentCommand.id) = 1)
          => invoked' = invoked /\ delivered' = <<>>]_vars

\* a caller's command was answered by %error, its error handler ran, and a
\* second reply arrived while the slot still held it
SecondReplySeen ==
    /\ last.op \in {"receiveCommandResponse", "receiveCommandError"}
    /\ ~last.inFlight
    /\ m_currentCommand.id >= 1
    /\ invoked = <<[id |-> m_currentCommand.id, handler |-> "error"]>>
    /\ nAnswered = Len(sent)
    /\ ~crashed

\* C29: sendCommand emits a command directly only when the pending queue is
\* empty, from construction on (where the queue holds the attach
\* placeholder), so no command is emitted ahead of one queued before it.
NoCommandBypassesQueue ==
    [][(nextId' = nextId + 1 /\ sent' # sent) => m_pendingCommands = <<>>]_vars

\* the texts of the @konsole_size queries the manager can build
SizeQueryTexts == {SizeQueryText(n) : n \in SessionIds \cup {InitialActiveSession}}

\* the text is a @konsole_size query
IsSizeQuery(text) == text \in SizeQueryTexts

\* the @konsole_size queries issued so far: emitted or waiting in the queue
SizeQueriesIssued(emissions, queue) ==
    Cardinality({i \in 1..Len(emissions) : IsSizeQuery(emissions[i].command)})
    + Cardinality({i \in 1..Len(queue) : IsSizeQuery(queue[i].command)})

\* C33: over any sequence of %session-changed notifications exactly one
\* @konsole_size query is issued (emitted or enqueued) per distinct session
\* id: the first %session-changed for an id issues one query, a later one
\* for an id already in the table issues none and creates no second record.
SizeQueryOncePerSession ==
    [][last'.op = "receiveSessionChanged"
       => /\ IF last'.existed
             THEN /\ UNCHANGED <<nextId, sent, m_pendingCommands, m_currentCommand>>
                  /\ DOMAIN m_sessions' = DOMAIN m_sessions
             ELSE /\ nextId' = nextId + 1
                  /\ DOMAIN m_sessions' = DOMAIN m_sessions \cup {last'.session}
                  /\ Issued.responseHandler = SizeHandler(last'.session)
                  /\ IsSizeQuery(Issued.command)
                  /\ SizeQueriesIssued(sent', m_pendingCommands')
                     = SizeQueriesIssued(sent, m_pendingCommands) + 1
          /\ SizeQueriesIssued(sent', m_pendingCommands') = Cardinality(DOMAIN m_sessions')]_vars

\* two sessions are in the table, a %session-changed for one of them came
\* again, and two queries have been issued
SecondSessionChangedSeen ==
    /\ last.op = "receiveSessionChanged"
    /\ last.existed
    /\ Cardinality(DOMAIN m_sessions) = 2
    /\ SizeQueriesIssued(sent, m_pendingCommands) = 2

(* --------------------------- code points ------------------------------- *)
\* the lower-case letters, in the order of their code points
Letters ==
    <<"a", "b", "c", "d", "e", "f", "g", "h", "i", "j", "k", "l", "m", "n", "o", "p", "q",
      "r", "s", "t", "u", "v", "w", "x", "y", "z">>

\* the code point (uint) of a character of the control-mode stream
Ucs4(c) ==
    CASE c = " " -> 32
      [] c = "$" -> 36
      [] c = "%" -> 37
      [] c = "*" -> 42
      [] c = "+" -> 43
      [] c = "-" -> 45
      [] c = ":" -> 58
      [] c = "@" -> 64
      [] c = "\\" -> 92
      [] c = "," -> 44
      [] \E k \in 1..26 : Letters[k] = c -> 96 + (CHOOSE k \in 1..26 : Letters[k] = c)
      [] IsDigit(c) -> 48 + DigitValue(c)

\* the code points of a text
Ucs4Text(text) == [k \in 1..Len(text) |-> Ucs4(text[k])]

\* the decimal text of a natural number, as code points
DecimalText(n) == Ucs4Text(NatToChars(n))

\* QString::fromUcs4: the UTF-16 code units of the code points
RECURSIVE fromUcs4(_)
fromUcs4(chars) ==
    IF chars = <<>> THEN <<>>
    ELSE IF Head(chars) < 65536 THEN <<Head(chars)>> \o fromUcs4(Tail(chars))
    ELSE <<55296 + ((Head(chars) - 65536) \div 1024), 56320 + ((Head(chars) - 65536) % 1024)>>
         \o fromUcs4(Tail(chars))

(* ---------------------------- parseTmuxId ------------------------------ *)
\* QString::toInt's view of a text: surrounding white space is skipped
RECURSIVE TrimLeft(_)
TrimLeft(text) ==
    IF text # <<>> /\ Head(text) = Ucs4(" ") THEN TrimLeft(Tail(text)) ELSE text

RECURSIVE TrimRight(_)
TrimRight(text) ==
    IF text # <<>> /\ text[Len(text)] = Ucs4(" ")
    THEN TrimRight(SubSeq(text, 1, Len(text) - 1))
    ELSE text

\* every code point is a decimal digit
AllDigits(text) == \A k \in 1..Len(text) : text[k] >= 48 /\ text[k] <= 57

\* the value of a text of decimal digits
RECURSIVE DecimalValue(_)
DecimalValue(text) ==
    IF text = <<>> THEN 0
    ELSE DecimalValue(SubSeq(text, 1, Len(text) - 1)) * 10 + (text[Len(text)] - 48)

\* QString::toInt(&ok): an optional sign and decimal digits, within the range
\* of int; 0 and ok = false otherwise
toInt(str) ==
    LET text == TrimRight(TrimLeft(str))
        signed == text # <<>> /\ Head(text) \in {Ucs4("+"), Ucs4("-")}
        digits == IF signed THEN Tail(text) ELSE text
        value == IF signed /\ Head(text) = Ucs4("-")
                 THEN 0 - DecimalValue(digits) ELSE DecimalValue(digits)
    IN IF digits # <<>> /\ AllDigits(digits) /\ value >= -2147483647 - 1 /\ value <= 2147483647
       THEN [ret |-> value, ok |-> TRUE]
       ELSE [ret |-> 0, ok |-> FALSE]

\* parseTmuxId<C>(lexBuffer, &ok): what it returns and what it stores in ok
\* (every caller passes &ok)
parseTmuxId(C, lexBuffer) ==
    IF Len(lexBuffer) = 2 /\ lexBuffer[1] = C /\ lexBuffer[2] = Ucs4("*")
    THEN [ret |-> -1, ok |-> TRUE]
    ELSE IF Len(lexBuffer) >= 2 /\ lexBuffer[1] = C
    THEN toInt(Tail(lexBuffer))
    ELSE [ret |-> -2, ok |-> FALSE]

parseTmuxSessionId(lexBuffer) == parseTmuxId(Ucs4("$"), lexBuffer)

parseTmuxWindowId(lexBuffer) == parseTmuxId(Ucs4("@"), lexBuffer)

parseTmuxPaneId(lexBuffer) == parseTmuxId(Ucs4("%"), lexBuffer)

\* longest buffer handed to parseTmuxId
MaxIdLen == 3

\* code points that occur in the buffers
IdAlphabet == {Ucs4(c) : c \in {"$", "@", "%", "*", "0", "1", "9", "-", "a"}}

\* the buffers of at most MaxIdLen code points
IdBuffers == UNION {[1..n -> IdAlphabet] : n \in 0..MaxIdLen}

\* a notification parser is about to call parseTmuxId<C> on a buffer
IdInit ==
    /\ TmuxServerManagerInit
    /\ \E C \in {Ucs4("$"), Ucs4("@"), Ucs4("%")}, lexBuffer \in IdBuffers :
           idCall = [C |-> C, lexBuffer |-> lexBuffer, returned |-> FALSE, ret |-> 0, ok |-> FALSE]
    /\ stream = <<>>
    /\ lineNo = 0
    /\ line = <<>>
    /\ notification = TmuxNullNotification
    /\ received = <<>>
    /\ VtIdle

\* the call returns
ParseTmuxId ==
    /\ ~idCall.returned
    /\ LET r == IF idCall.C = Ucs4("$") THEN parseTmuxSessionId(idCall.lexBuffer)
                ELSE IF idCall.C = Ucs4("@") THEN parseTmuxWindowId(idCall.lexBuffer)
                ELSE parseTmuxPaneId(idCall.lexBuffer)
       IN idCall' = [idCall EXCEPT !.returned = TRUE, !.ret = r.ret, !.ok = r.ok]
    /\ UNCHANGED <<stream, lineNo, line, notification, received>>
    /\ UNCHANGED managerVars
    /\ UNCHANGED vtVars

IdNext == ParseTmuxId

IdSpec == IdInit /\ [][IdNext]_vars

\* the buffer is C followed by one or more decimal digits
IsDecimalId == Len(idCall.lexBuffer) >= 2 /\ idCall.lexBuffer[1] = idCall.C
               /\ AllDigits(Tail(idCall.lexBuffer))

\* the buffer is C followed by '*'
IsWildcardId == idCall.lexBuffer = <<idCall.C, Ucs4("*")>>

\* C13: parseTmuxId<C>(buf, ok) returns -1 with ok = true exactly when buf is
\* C followed by '*', the decimal value with ok = true exactly when buf is C
\* followed by one or more decimal digits, and sets ok = false for every other
\* buffer.
ParseTmuxIdContract ==
    idCall.returned =>
        IF IsWildcardId THEN idCall.ok /\ idCall.ret = -1
        ELSE IF IsDecimalId
        THEN idCall.ok /\ idCall.ret = DecimalValue(Tail(idCall.lexBuffer))
        ELSE ~idCall.ok

(* ------------------------ notification parsers ------------------------- *)
\* makeNotification(kind): the alternative of that kind, its members
\* value-initialised (argument index 0, accumulators 0, empty buffer)
makeNotification(kind) ==
    CASE kind = "ClientSessionChanged" ->
             \* TmuxClientSessionChangedNotification(): session{-2}
             [TmuxNullNotification EXCEPT !.kind = kind, !.session = -2]
      [] kind = "Response" ->
             \* TmuxResponseNotification(): state{State::Begin}, commandResponse{}
             [TmuxNullNotification EXCEPT !.kind = kind, !.state = "Begin"]
      [] OTHER -> [TmuxNullNotification EXCEPT !.kind = kind]

\* QString::toULongLong(&ok): an optional '+' and decimal digits; 0 and
\* ok = false otherwise
toULongLong(str) ==
    LET text == TrimRight(TrimLeft(str))
        digits == IF text # <<>> /\ Head(text) = Ucs4("+") THEN Tail(text) ELSE text
    IN IF digits # <<>> /\ AllDigits(digits)
       THEN [ret |-> DecimalValue(digits), ok |-> TRUE]
       ELSE [ret |-> 0, ok |-> FALSE]

\* the escaped-payload branch under a slip that reads the digits in base 10
PushEscapedDecimal(n, cc) ==
    IF cc = Ucs4("\\")
    THEN [n EXCEPT !.octParse = 1]
    ELSE IF n.octParse > 0 /\ n.octParse < 4
    THEN IF cc >= 48 /\ cc <= 57
         THEN IF n.octParse + 1 = 4
              THEN [n EXCEPT !.lexBuffer = Append(n.lexBuffer, n.octParseChar * 10 + (cc - 48)),
                             !.octParseChar = 0,
                             !.octParse = 0]
              ELSE [n EXCEPT !.octParseChar = n.octParseChar * 10 + (cc - 48),
                             !.octParse = n.octParse + 1]
         ELSE [n EXCEPT !.lexBuffer = n.lexBuffer \o <<n.octParseChar, cc>>,
                        !.octParseChar = 0,
                        !.octParse = 0]
    ELSE [n EXCEPT !.lexBuffer = Append(n.lexBuffer, cc)]

\* the escaped-payload branch shared by %output and %extended-output
\* (lines 672-691 and 573-592); octParseChar stays far below 2^32 for the
\* payloads fed here
PushEscaped(n, cc) ==
    IF cc = Ucs4("\\")
    THEN [n EXCEPT !.octParse = 1]
    ELSE IF n.octParse > 0 /\ n.octParse < 4
    THEN IF cc >= 48 /\ cc <= 57
         THEN IF n.octParse + 1 = 4
              THEN [n EXCEPT !.lexBuffer = Append(n.lexBuffer, n.octParseChar * 8 + (cc - 48)),
                             !.octParseChar = 0,
                             !.octParse = 0]
              ELSE [n EXCEPT !.octParseChar = n.octParseChar * 8 + (cc - 48),
                             !.octParse = n.octParse + 1]
         ELSE [n EXCEPT !.lexBuffer = n.lexBuffer \o <<n.octParseChar, cc>>,
                        !.octParseChar = 0,
                        !.octParse = 0]
    ELSE [n EXCEPT !.lexBuffer = Append(n.lexBuffer, cc)]

\* TmuxOutputNotification::push_char
TmuxOutputNotification_push_char(n, cc) ==
    IF n.arg = 0
    THEN IF cc = Ucs4(" ")
         THEN [n EXCEPT !.pane = parseTmuxPaneId(n.lexBuffer).ret,
                        !.lexBuffer = <<>>,
                        !.arg = 1]
         ELSE [n EXCEPT !.lexBuffer = Append(n.lexBuffer, cc)]
    ELSE PushEscaped(n, cc)

\* what a notification's execute hands to the manager
Call(name, pane, age, window, data) ==
    [call |-> name, pane |-> pane, age |-> age, window |-> window, data |-> data]

\* TmuxOutputNotification::execute
TmuxOutputNotification_execute(n) == Call("receiveOutput", n.pane, 0, 0, n.lexBuffer)

\* TmuxExtendedOutputNotification::push_char
TmuxExtendedOutputNotification_push_char(n, cc) ==
    IF n.arg = 0 /\ cc = Ucs4(" ")
    THEN [n EXCEPT !.pane = parseTmuxPaneId(n.lexBuffer).ret,
                   !.lexBuffer = <<>>,
                   !.arg = n.arg + 1]
    ELSE IF n.arg = 1 /\ cc = Ucs4(" ")
    THEN [n EXCEPT !.age = toULongLong(n.lexBuffer).ret,
                   !.lexBuffer = <<>>,
                   !.arg = n.arg + 1]
    ELSE IF n.arg = 2 /\ cc = Ucs4(" ")
    THEN IF Len(n.lexBuffer) = 1 /\ n.lexBuffer[1] = Ucs4(":")
         THEN [n EXCEPT !.lexBuffer = <<>>, !.arg = n.arg + 1]
         ELSE [n EXCEPT !.lexBuffer = <<>>]
    ELSE IF n.arg < 2
    THEN [n EXCEPT !.lexBuffer = Append(n.lexBuffer, cc)]
    ELSE IF n.arg = 3
    THEN PushEscaped(n, cc)
    ELSE n

\* TmuxExtendedOutputNotification::execute
TmuxExtendedOutputNotification_execute(n) ==
    Call("receiveExtendedOutput", n.pane, n.age, 0, n.lexBuffer)

\* TmuxUnlinkedWindowAddNotification::push_char: the second test is not an
\* else-branch of the first
TmuxUnlinkedWindowAddNotification_push_char(n, cc) ==
    LET m == IF n.arg = 0 /\ cc = Ucs4("@") THEN [n EXCEPT !.arg = 1] ELSE n
    IN IF m.arg = 1 /\ cc > 48 /\ cc <= 57
       THEN [m EXCEPT !.window = m.window * 10 + (cc - 48)]
       ELSE [m EXCEPT !.arg = 2, !.window = -2]

\* TmuxUnlinkedWindowCloseNotification::push_char
TmuxUnlinkedWindowCloseNotification_push_char(n, cc) ==
    IF n.arg = 0 /\ cc = Ucs4("@")
    THEN [n EXCEPT !.arg = 1]
    ELSE IF n.arg = 1 /\ cc > 48 /\ cc <= 57
    THEN [n EXCEPT !.window = n.window * 10 + (cc - 48)]
    ELSE [n EXCEPT !.arg = 2, !.window = -2]

\* TmuxUnlinkedWindowRenamedNotification::push_char
TmuxUnlinkedWindowRenamedNotification_push_char(n, cc) ==
    IF n.arg = 0 /\ cc = Ucs4("@")
    THEN [n EXCEPT !.arg = 1]
    ELSE IF n.arg = 1 /\ cc > 48 /\ cc <= 57
    THEN [n EXCEPT !.window = n.window * 10 + (cc - 48)]
    ELSE [n EXCEPT !.arg = 2, !.window = -2]

\* TmuxWindowAddNotification::push_char
TmuxWindowAddNotification_push_char(n, cc) ==
    IF n.arg = 0 /\ cc = Ucs4("@")
    THEN [n EXCEPT !.arg = 1]
    ELSE IF n.arg = 1 /\ cc > 48 /\ cc <= 57
    THEN [n EXCEPT !.window = n.window * 10 + (cc - 48)]
    ELSE [n EXCEPT !.arg = 2, !.window = -2]

\* TmuxWindowCloseNotification::push_char
TmuxWindowCloseNotification_push_char(n, cc) ==
    IF n.arg = 0 /\ cc = Ucs4("@")
    THEN [n EXCEPT !.arg = 1]
    ELSE IF n.arg = 1 /\ cc > 48 /\ cc <= 57
    THEN [n EXCEPT !.window = n.window * 10 + (cc - 48)]
    ELSE [n EXCEPT !.arg = 2, !.window = -2]

\* TmuxWindowPaneChangedNotification::push_char
TmuxWindowPaneChangedNotification_push_char(n, cc) ==
    IF n.arg = 0 /\ cc = Ucs4("@")
    THEN [n EXCEPT !.arg = 1]
    ELSE IF n.arg = 1 /\ cc > 48 /\ cc <= 57
    THEN [n EXCEPT !.window = n.window * 10 + (cc - 48)]
    ELSE IF n.arg = 1 /\ cc = Ucs4(" ")
    THEN [n EXCEPT !.arg = 2]
    ELSE IF n.arg = 2 /\ cc = Ucs4("%")
    THEN [n EXCEPT !.arg = 3]
    ELSE IF n.arg = 3 /\ cc > 48 /\ cc <= 57
    THEN [n EXCEPT !.pane = n.pane * 10 + (cc - 48)]
    ELSE [n EXCEPT !.arg = 4, !.window = -2]

\* TmuxLayoutChangeNotification::execute
TmuxLayoutChangeNotification_execute(n) ==
    [call |-> "receiveLayoutChange", window |-> n.window,
     windowLayout |-> n.windowLayout, windowVisibleLayout |-> n.windowVisibleLayout,
     flags |-> fromUcs4(n.lexBuffer)]

\* TmuxLayoutChangeNotification::push_char: three branches, each on a space;
\* no branch appends to lexBuffer
TmuxLayoutChangeNotification_push_char(n, cc) ==
    IF n.arg = 0 /\ cc = Ucs4(" ")
    THEN [n EXCEPT !.window = parseTmuxWindowId(n.lexBuffer).ret,
                   !.lexBuffer = <<>>,
                   !.arg = n.arg + 1]
    ELSE IF n.arg = 1 /\ cc = Ucs4(" ")
    THEN [n EXCEPT !.windowLayout = fromUcs4(n.lexBuffer),
                   !.lexBuffer = <<>>,
                   !.arg = n.arg + 1]
    ELSE IF n.arg = 2 /\ cc = Ucs4(" ")
    THEN [n EXCEPT !.windowVisibleLayout = fromUcs4(n.lexBuffer),
                   !.lexBuffer = <<>>,
                   !.arg = n.arg + 1]
    ELSE n

\* TmuxSessionChangedNotification::execute
TmuxSessionChangedNotification_execute(n) ==
    [call |-> "receiveSessionChanged", id |-> n.session, name |-> fromUcs4(n.lexBuffer)]

\* TmuxSessionChangedNotification::push_char under a slip that ends the
\* name at the next space
SessionNameToSpace(n, cc) ==
    IF cc = Ucs4(" ")
    THEN IF n.arg = 0
         THEN [n EXCEPT !.session = parseTmuxSessionId(n.lexBuffer).ret,
                        !.lexBuffer = <<>>,
                        !.arg = n.arg + 1]
         ELSE [n EXCEPT !.arg = n.arg + 1]
    ELSE IF n.arg < 2
    THEN [n EXCEPT !.lexBuffer = Append(n.lexBuffer, cc)]
    ELSE n

\* TmuxSessionChangedNotification::push_char
TmuxSessionChangedNotification_push_char(n, cc) ==
    IF n.arg = 0 /\ cc = Ucs4(" ")
    THEN [n EXCEPT !.session = parseTmuxSessionId(n.lexBuffer).ret,
                   !.lexBuffer = <<>>,
                   !.arg = n.arg + 1]
    ELSE [n EXCEPT !.lexBuffer = Append(n.lexBuffer, cc)]

\* TmuxWindowRenamedNotification::execute
TmuxWindowRenamedNotification_execute(n) ==
    [call |-> "receiveWindowRenamed", id |-> n.window, name |-> fromUcs4(n.lexBuffer)]

\* TmuxWindowRenamedNotification::push_char
TmuxWindowRenamedNotification_push_char(n, cc) ==
    IF n.arg = 0 /\ cc = Ucs4(" ")
    THEN [n EXCEPT !.window = parseTmuxWindowId(n.lexBuffer).ret,
                   !.lexBuffer = <<>>,
                   !.arg = n.arg + 1]
    ELSE [n EXCEPT !.lexBuffer = Append(n.lexBuffer, cc)]

\* TmuxClientSessionChangedNotification::execute
TmuxClientSessionChangedNotification_execute(n) ==
    [call |-> "receiveClientSessionChanged", client |-> n.client, id |-> n.session,
     name |-> fromUcs4(n.lexBuffer)]

\* TmuxClientSessionChangedNotification::push_char: an id that does not
\* parse is delivered as -2
TmuxClientSessionChangedNotification_push_char(n, cc) ==
    IF cc = Ucs4(" ") /\ n.arg = 0
    THEN [n EXCEPT !.client = fromUcs4(n.lexBuffer),
                   !.lexBuffer = <<>>,
                   !.arg = n.arg + 1]
    ELSE IF cc = Ucs4(" ") /\ n.arg = 1
    THEN [n EXCEPT !.session = IF parseTmuxSessionId(n.lexBuffer).ok
                                THEN parseTmuxSessionId(n.lexBuffer).ret
                                ELSE -2,
                   !.lexBuffer = <<>>,
                   !.arg = n.arg + 1]
    ELSE [n EXCEPT !.lexBuffer = Append(n.lexBuffer, cc)]

\* TmuxResponseNotification::execute: the call it makes on the manager,
\* by the state it is in
TmuxResponseNotification_execute(n) ==
    IF n.state = "End" THEN "receiveCommandResponse"
    ELSE IF n.state = "Error" THEN "receiveCommandError"
    ELSE "none"

\* TmuxResponseNotification::push_char under a slip that does not look at
\* the state
ResponsePushInAnyState(n, cc) ==
    IF n.commandResponse # <<>>
    THEN [n EXCEPT !.commandResponse[Len(n.commandResponse)] = Append(@, cc)]
    ELSE n

\* TmuxResponseNotification::push_char; commandResponse.last() needs a
\* line, which the reader of the stream opens before it enters state Response
TmuxResponseNotification_push_char(n, cc) ==
    IF n.state = "Response"
    THEN [n EXCEPT !.commandResponse[Len(n.commandResponse)] = Append(@, cc)]
    ELSE n

\* std::visit of push_char on the variant
push_char(n, cc) ==
    CASE n.kind = "Output" -> TmuxOutputNotification_push_char(n, cc)
      [] n.kind = "ExtendedOutput" -> TmuxExtendedOutputNotification_push_char(n, cc)
      [] n.kind = "UnlinkedWindowAdd" -> TmuxUnlinkedWindowAddNotification_push_char(n, cc)
      [] n.kind = "UnlinkedWindowClose" -> TmuxUnlinkedWindowCloseNotification_push_char(n, cc)
      [] n.kind = "UnlinkedWindowRenamed" -> TmuxUnlinkedWindowRenamedNotification_push_char(n, cc)
      [] n.kind = "WindowAdd" -> TmuxWindowAddNotification_push_char(n, cc)
      [] n.kind = "WindowClose" -> TmuxWindowCloseNotification_push_char(n, cc)
      [] n.kind = "WindowPaneChanged" -> TmuxWindowPaneChangedNotification_push_char(n, cc)
      [] n.kind = "LayoutChange" -> TmuxLayoutChangeNotification_push_char(n, cc)
      [] n.kind = "SessionChanged" -> TmuxSessionChangedNotification_push_char(n, cc)
      [] n.kind = "WindowRenamed" -> TmuxWindowRenamedNotification_push_char(n, cc)
      [] n.kind = "ClientSessionChanged" -> TmuxClientSessionChangedNotification_push_char(n, cc)
      [] n.kind = "Response" -> TmuxResponseNotification_push_char(n, cc)

\* std::visit of execute on the variant: the call it makes on the manager
notificationExecute(n) ==
    CASE n.kind = "Output" -> TmuxOutputNotification_execute(n)
      [] n.kind = "ExtendedOutput" -> TmuxExtendedOutputNotification_execute(n)
      [] n.kind = "UnlinkedWindowAdd" -> Call("receiveUnlinkedWindowAdd", 0, 0, n.window, <<>>)
      [] n.kind = "UnlinkedWindowClose" -> Call("receiveUnlinkedWindowClose", 0, 0, n.window, <<>>)
      [] n.kind = "UnlinkedWindowRenamed" -> Call("receiveUnlinkedWindowRenamed", 0, 0, n.window, <<>>)
      [] n.kind = "WindowAdd" -> Call("receiveWindowAdd", 0, 0, n.window, <<>>)
      [] n.kind = "WindowClose" -> Call("receiveWindowClose", 0, 0, n.window, <<>>)
      [] n.kind = "WindowPaneChanged" -> Call("receiveWindowPaneChanged", n.pane, 0, n.window, <<>>)
      [] n.kind = "LayoutChange" -> TmuxLayoutChangeNotification_execute(n)
      [] n.kind = "SessionChanged" -> TmuxSessionChangedNotification_execute(n)
      [] n.kind = "WindowRenamed" -> TmuxWindowRenamedNotification_execute(n)
      [] n.kind = "ClientSessionChanged" -> TmuxClientSessionChangedNotification_execute(n)

(* ----------------------- the notification stream ----------------------- *)
\* A unit of an escaped payload as the tmux server writes it: the code points
\* on the wire (raw) and the code points it stands for (data).
Plain(c) == [unit |-> "plain", raw |-> <<c>>, data |-> <<c>>]

\* the three octal digits of a byte
OctalDigits(b) == <<48 + (b \div 64), 48 + ((b \div 8) % 8), 48 + (b % 8)>>

\* the byte b written as \ooo
Escaped(b) == [unit |-> "escape", raw |-> <<Ucs4("\\")>> \o OctalDigits(b), data |-> <<b>>]

\* an escape that the end of the line cuts short after the given digits
Cut(digits) == [unit |-> "cut", raw |-> <<Ucs4("\\")>> \o digits, data |-> <<>>]

\* code points that follow no grammar
Raw(text) == [unit |-> "raw", raw |-> text, data |-> <<>>]

RECURSIVE RawOf(_)
RawOf(payload) == IF payload = <<>> THEN <<>> ELSE Head(payload).raw \o RawOf(Tail(payload))

RECURSIVE DataOf(_)
DataOf(payload) == IF payload = <<>> THEN <<>> ELSE Head(payload).data \o DataOf(Tail(payload))

\* A line of the stream after its %<name> token: the notification kind the
\* token selects, the argument text, and what the server wrote the text from.
StreamLine(kind, text, pane, age, window, payload) ==
    [kind |-> kind, text |-> text, pane |-> pane, age |-> age, window |-> window,
     payload |-> payload]

\* %output %<pane> <payload>
OutputLine(pane, payload) ==
    StreamLine("Output",
               <<Ucs4("%")>> \o DecimalText(pane) \o <<Ucs4(" ")>> \o RawOf(payload),
               pane, 0, 0, payload)

\* %extended-output %<pane> <age> : <payload>
ExtendedOutputLine(pane, age, payload) ==
    StreamLine("ExtendedOutput",
               <<Ucs4("%")>> \o DecimalText(pane) \o <<Ucs4(" ")>> \o DecimalText(age)
               \o <<Ucs4(" "), Ucs4(":"), Ucs4(" ")>> \o RawOf(payload),
               pane, age, 0, payload)

\* %window-add @<window> and the other notifications with one window id
WindowLine(kind, window) ==
    StreamLine(kind, <<Ucs4("@")>> \o DecimalText(window), 0, 0, window, <<>>)

\* %window-pane-changed @<window> %<pane>
WindowPaneChangedLine(window, pane) ==
    StreamLine("WindowPaneChanged",
               <<Ucs4("@")>> \o DecimalText(window) \o <<Ucs4(" "), Ucs4("%")>>
               \o DecimalText(pane),
               pane, 0, window, <<>>)

\* longest payload of arbitrary code points
MaxRawLen == 3
\* most units in a payload the server writes
MaxUnits == 2

RawAlphabet == {Ucs4(c) : c \in {"\\", "1", "7", "8", "a", " "}}
RawTexts == UNION {[1..n -> RawAlphabet] : n \in 0..MaxRawLen}
PayloadUnits == {Plain(Ucs4("a")), Plain(Ucs4(" ")), Plain(Ucs4("1")),
                 Escaped(0), Escaped(Ucs4("\\")), Escaped(255)}
Payloads == UNION {[1..n -> PayloadUnits] : n \in 0..MaxUnits}
CutTails == {Cut(<<>>), Cut(<<Ucs4("1")>>), Cut(<<Ucs4("1"), Ucs4("2")>>)}
CutPayloads == {Append(p, t) : p \in Payloads, t \in CutTails}
PaneIds == {0, 12}
Ages == {0, 15}
WindowIds == {0, 5, 10, 12, 50, 105}
OneWindowKinds == {"UnlinkedWindowAdd", "UnlinkedWindowClose", "UnlinkedWindowRenamed",
                   "WindowAdd", "WindowClose"}

\* the streams the server writes: sequences of notification lines
Streams ==
    {<<OutputLine(0, <<Escaped(b)>>)>> : b \in 0..255}
    \cup {<<OutputLine(0, <<Raw(t)>>)>> : t \in RawTexts}
    \cup {<<OutputLine(pane, p)>> : pane \in PaneIds, p \in Payloads \cup CutPayloads}
    \cup {<<OutputLine(0, <<u>>), OutputLine(pane, <<v>>)>> :
              pane \in PaneIds, u \in PayloadUnits, v \in PayloadUnits}
    \cup {<<OutputLine(pane, p), ExtendedOutputLine(pane, age, p)>> :
              pane \in PaneIds, age \in Ages, p \in Payloads}
    \cup {<<WindowLine(kind, window)>> : kind \in OneWindowKinds, window \in WindowIds}
    \cup {<<WindowPaneChangedLine(window, pane)>> : window \in WindowIds, pane \in WindowIds}

\* the emulation is about to read a stream of notifications
NotificationInit ==
    /\ TmuxServerManagerInit
    /\ idCall = NoIdCall
    /\ stream \in Streams
    /\ lineNo = 0
    /\ line = <<>>
    /\ notification = TmuxNullNotification
    /\ received = <<>>
    /\ VtIdle

\* tmux_parse has matched the %<name> token of the next line:
\* _tmuxNotificationVariant = makeNotification(kind)
BeginNotification ==
    /\ notification.kind = "Null"
    /\ lineNo < Len(stream)
    /\ lineNo' = lineNo + 1
    /\ notification' = makeNotification(stream[lineNo + 1].kind)
    /\ line' = stream[lineNo + 1].text
    /\ UNCHANGED <<idCall, stream, received>>
    /\ UNCHANGED managerVars
    /\ UNCHANGED vtVars

\* the next code point of the line goes to the variant's push_char
PushChar ==
    /\ notification.kind # "Null"
    /\ line # <<>>
    /\ notification' = push_char(notification, Head(line))
    /\ line' = Tail(line)
    /\ UNCHANGED <<idCall, stream, lineNo, received>>
    /\ UNCHANGED managerVars
    /\ UNCHANGED vtVars

\* end of line: the variant's execute runs and the variant is dropped
Execute ==
    /\ notification.kind # "Null"
    /\ line = <<>>
    /\ received' = Append(received, notificationExecute(notification))
    /\ notification' = TmuxNullNotification
    /\ UNCHANGED <<idCall, stream, lineNo, line>>
    /\ UNCHANGED managerVars
    /\ UNCHANGED vtVars

NotificationNext ==
    \/ BeginNotification
    \/ PushChar
    \/ Execute

NotificationSpec == NotificationInit /\ [][NotificationNext]_vars

(* ---------------------- notification parser claims --------------------- *)
\* C14: for every byte b in 0..255, the %output line `%0 \ooo` (ooo = b in
\* three octal digits) delivers pane 0 and a payload of exactly one code
\* point, equal to b.
OctalRoundTrip ==
    \A k \in 1..Len(received) : \A b \in 0..255 :
        stream[k] = OutputLine(0, <<Escaped(b)>>)
        => /\ received[k].call = "receiveOutput"
           /\ received[k].pane = 0
           /\ received[k].data = <<b>>

\* the escape of byte 255 has been read and handed over
OctalByteDelivered ==
    /\ stream = <<OutputLine(0, <<Escaped(255)>>)>>
    /\ Len(received) = 1
    /\ received[1].data = <<255>>

\* the parser is between the backslash of an escape and its third digit
InEscape(n) == n.octParse >= 1 /\ n.octParse <= 3

\* C15: in a %output payload a backslash begins an escape; the escape
\* produces one code point after exactly three octal digits ('0'..'7'); any
\* other byte arriving during an escape ('8' and '9' included) aborts it and
\* returns the parser to normal mode; every byte outside an escape is appended
\* to the payload unchanged.  (A second backslash during an escape is left
\* out: the claim does not say whether it begins a new escape.)
EscapeContract ==
    [][(/\ notification.kind = "Output"
        /\ notification.arg = 1
        /\ line # <<>>
        /\ line' = Tail(line))
       => LET cc == Head(line)
              octal == cc >= 48 /\ cc <= 55
              backslash == cc = Ucs4("\\")
          IN /\ (backslash /\ ~InEscape(notification))
                => /\ InEscape(notification')
                   /\ notification'.lexBuffer = notification.lexBuffer
             /\ (InEscape(notification) /\ octal /\ notification.octParse < 3)
                => /\ InEscape(notification')
                   /\ notification'.lexBuffer = notification.lexBuffer
             /\ (InEscape(notification) /\ octal /\ notification.octParse = 3)
                => /\ ~InEscape(notification')
                   /\ Len(notification'.lexBuffer) = Len(notification.lexBuffer) + 1
             /\ (InEscape(notification) /\ ~octal /\ ~backslash)
                => ~InEscape(notification')
             /\ (~InEscape(notification) /\ ~backslash)
                => notification'.lexBuffer = Append(notification.lexBuffer, cc)]_vars

\* the line is a %output line whose payload the server wrote from units
IsWrittenOutput(l) ==
    l.kind = "Output" /\ \A u \in 1..Len(l.payload) : l.payload[u].unit # "raw"

\* the payload ends in an escape cut short by the end of the line
EndsCut(l) == l.payload # <<>> /\ l.payload[Len(l.payload)].unit = "cut"

\* C16: for every %output line `%<pane> <payload>`, receiveOutput gets the
\* pane id and the decoded payload, every payload byte present in arrival
\* order (spaces included, nothing dropped or duplicated, the bytes of an
\* escape that the end of the line cuts short not dropped either), and the
\* k-th %output line is the k-th delivery.
OutputDeliveredInOrder ==
    \A k \in 1..Len(received) :
        IsWrittenOutput(stream[k])
        => LET want == DataOf(stream[k].payload)
               got == received[k].data
           IN /\ received[k].call = "receiveOutput"
              /\ received[k].pane = stream[k].pane
              /\ IF EndsCut(stream[k])
                 THEN Len(got) > Len(want) /\ SubSeq(got, 1, Len(want)) = want
                 ELSE got = want

\* C17: %extended-output uses the escaping of %output: the payload delivered
\* for `%<pane> <age> : p` equals the payload delivered by the %output parser
\* for `%<pane> p`, and the pane id and the age are delivered as parsed.
ExtendedOutputMatchesOutput ==
    (/\ Len(stream) = 2
     /\ Len(received) = 2
     /\ stream[1].kind = "Output"
     /\ stream[2].kind = "ExtendedOutput"
     /\ stream[2].payload = stream[1].payload)
    => /\ received[2].call = "receiveExtendedOutput"
       /\ received[2].data = received[1].data
       /\ received[2].pane = stream[2].pane
       /\ received[2].age = stream[2].age

\* C18: %window-add, %window-close, %unlinked-window-add,
\* %unlinked-window-close, %unlinked-window-renamed and %window-pane-changed
\* deliver an id argument `@<digits>` (and `%<digits>` for the pane) as the
\* decimal value of the digits, for every digit string, 0 included.
WindowIdsDelivered ==
    \A k \in 1..Len(received) :
        /\ stream[k].kind \in OneWindowKinds \cup {"WindowPaneChanged"}
           => received[k].window = stream[k].window
        /\ stream[k].kind = "WindowPaneChanged"
           => received[k].pane = stream[k].pane

(* --------------------------- the VT parser ----------------------------- *)
\* enum ParserStates under a slip that leaves the VT52 states undeclared
ParserStatesWithoutVt52 ==
    {"Ground", "Escape", "EscapeIntermediate", "CsiEntry", "CsiParam", "CsiIntermediate",
     "CsiIgnore", "DcsEntry", "DcsParam", "DcsIntermediate", "DcsPassthrough", "DcsIgnore",
     "OscString", "SosPmApcString", "TmuxRead", "TmuxConsume", "TmuxError"}

\* enum ParserStates
ParserStates ==
    {"Ground", "Escape", "EscapeIntermediate", "CsiEntry", "CsiParam", "CsiIntermediate",
     "CsiIgnore", "DcsEntry", "DcsParam", "DcsIntermediate", "DcsPassthrough", "DcsIgnore",
     "OscString", "SosPmApcString", "TmuxRead", "TmuxConsume", "TmuxError",
     "Vt52Escape", "Vt52CupRow", "Vt52CupColumn"}

\* the states of the published VT500 table
AnsiStates ==
    {"Ground", "Escape", "EscapeIntermediate", "CsiEntry", "CsiParam", "CsiIntermediate",
     "CsiIgnore", "DcsEntry", "DcsParam", "DcsIntermediate", "DcsPassthrough", "DcsIgnore",
     "OscString", "SosPmApcString"}

\* a row of the transition table: the action and the state switched to
Row(act, to) == [act |-> act, to |-> to]

\* the row makes no transition: the action runs and the state stays
Same == "same"

\* C0 controls that a state executes or ignores in place
IsC0(cc) == cc \in (0..23) \cup {25} \cup (28..31)

\* a byte of the right half (GR) is taken as its left-half (GL) counterpart
Fold(cc) == IF cc >= 160 THEN cc - 128 ELSE cc

\* the state ESC leads to
EscapeState(m) == IF m.MODE_Ansi THEN "Escape" ELSE "Vt52Escape"

\* the state that stands for Ground
GroundState(m) == IF m.MODE_Tmux THEN "TmuxRead" ELSE "Ground"

\* the rows of the table that apply in every state of the published table
Anywhere(cc, m) ==
    IF cc \in {24, 26} THEN {Row("execute", GroundState(m))}
    ELSE IF cc = 27 THEN {Row("none", EscapeState(m))}
    ELSE IF cc \in (128..143) \cup (145..151) \cup {153, 154} THEN {Row("execute", GroundState(m))}
    ELSE IF cc = 156 THEN {Row("none", GroundState(m))}
    ELSE IF cc \in {152, 158, 159} THEN {Row("none", "SosPmApcString")}
    ELSE IF cc = 144 THEN {Row("none", "DcsEntry")}
    ELSE IF cc = 157 THEN {Row("none", "OscString")}
    ELSE IF cc = 155 THEN {Row("none", "CsiEntry")}
    ELSE {}

\* the rows of one state of the published table for a byte below 0x80
StateRows(state, c, m) ==
    CASE state = "Ground" ->
            IF IsC0(c) THEN {Row("execute", Same)} ELSE {Row("print", Same)}
      [] state = "Escape" ->
            IF IsC0(c) THEN {Row("execute", Same)}
            ELSE IF c = 127 THEN {Row("ignore", Same)}
            ELSE IF c \in 32..47 THEN {Row("collect", "EscapeIntermediate")}
            ELSE IF c = 91 THEN {Row("none", "CsiEntry")}
            ELSE IF c = 93 THEN {Row("none", "OscString")}
            ELSE IF c = 80 THEN {Row("none", "DcsEntry")}
            ELSE IF c \in {88, 94, 95} THEN {Row("none", "SosPmApcString")}
            ELSE {Row("esc_dispatch", GroundState(m))}
      [] state = "EscapeIntermediate" ->
            IF IsC0(c) THEN {Row("execute", Same)}
            ELSE IF c = 127 THEN {Row("ignore", Same)}
            ELSE IF c \in 32..47 THEN {Row("collect", Same)}
            ELSE {Row("esc_dispatch", GroundState(m))}
      [] state = "CsiEntry" ->
            IF IsC0(c) THEN {Row("execute", Same)}
            ELSE IF c = 127 THEN {Row("ignore", Same)}
            ELSE IF c \in 32..47 THEN {Row("collect", "CsiIntermediate")}
            ELSE IF c \in 48..59 THEN {Row("param", "CsiParam")}
            ELSE IF c \in 60..63 THEN {Row("param", "CsiParam")}
            ELSE {Row("csi_dispatch", GroundState(m))}
      [] state = "CsiParam" ->
            IF IsC0(c) THEN {Row("execute", Same)}
            ELSE IF c = 127 THEN {Row("ignore", Same)}
            ELSE IF c \in 32..47 THEN {Row("collect", "CsiIntermediate")}
            ELSE IF c \in 48..59 THEN {Row("param", Same)}
            ELSE IF c \in 60..63 THEN {Row("none", "CsiIgnore")}
            ELSE {Row("csi_dispatch", GroundState(m))}
      [] state = "CsiIntermediate" ->
            IF IsC0(c) THEN {Row("execute", Same)}
            ELSE IF c = 127 THEN {Row("ignore", Same)}
            ELSE IF c \in 32..47 THEN {Row("collect", Same)}
            ELSE IF c \in 48..63 THEN {Row("none", "CsiIgnore")}
            ELSE {Row("csi_dispatch", GroundState(m))}
      [] state = "CsiIgnore" ->
            IF IsC0(c) THEN {Row("execute", Same)}
            ELSE IF c \in (32..63) \cup {127} THEN {Row("ignore", Same)}
            ELSE {Row("none", GroundState(m))}
      [] state = "DcsEntry" ->
            IF IsC0(c) \/ c = 127 THEN {Row("ignore", Same)}
            ELSE IF c \in 32..47 THEN {Row("collect", "DcsIntermediate")}
            ELSE IF c \in 48..59 THEN {Row("param", "DcsParam")}
            ELSE IF c \in 60..63 THEN {Row("param", "DcsParam")}
            ELSE {Row("none", "DcsPassthrough")}
      [] state = "DcsParam" ->
            IF IsC0(c) \/ c = 127 THEN {Row("ignore", Same)}
            ELSE IF c \in 32..47 THEN {Row("collect", "DcsIntermediate")}
            ELSE IF c \in 48..59 THEN {Row("param", Same)}
            ELSE IF c \in 60..63 THEN {Row("none", "DcsIgnore")}
            ELSE {Row("none", "DcsPassthrough")}
      [] state = "DcsIntermediate" ->
            IF IsC0(c) \/ c = 127 THEN {Row("ignore", Same)}
            ELSE IF c \in 32..47 THEN {Row("collect", Same)}
            ELSE IF c \in 48..63 THEN {Row("none", "DcsIgnore")}
            ELSE {Row("none", "DcsPassthrough")}
      [] state = "DcsPassthrough" ->
            IF c = 127 THEN {Row("ignore", Same)} ELSE {Row("put", Same)}
      [] state = "DcsIgnore" -> {Row("ignore", Same)}
      [] state = "OscString" ->
            IF c = 7 THEN {Row("none", GroundState(m))}
            ELSE IF IsC0(c) THEN {Row("ignore", Same)}
            ELSE {Row("osc_put", Same)}
      [] state = "SosPmApcString" -> {Row("apc_put", Same)}

\* tmuxCommandLookup: the notification tokens (the bytes of a line after its
\* initial %) and the kinds they construct
tmuxCommandLookup ==
    {[token |-> Ucs4Text(<<"b", "e", "g", "i", "n">>),
      kind |-> "Begin"],
     [token |-> Ucs4Text(<<"e", "n", "d">>),
      kind |-> "End"],
     [token |-> Ucs4Text(<<"e", "r", "r", "o", "r">>),
      kind |-> "Error"],
     [token |-> Ucs4Text(<<"c", "l", "i", "e", "n", "t", "-", "d", "e", "t", "a", "c", "h", "e", "d">>),
      kind |-> "ClientDetached"],
     [token |-> Ucs4Text(<<"c", "l", "i", "e", "n", "t", "-", "s", "e", "s", "s", "i", "o", "n", "-", "c", "h", "a", "n", "g", "e", "d">>),
      kind |-> "ClientSessionChanged"],
     [token |-> Ucs4Text(<<"c", "o", "n", "f", "i", "g", "-", "e", "r", "r", "o", "r">>),
      kind |-> "ConfigError"],
     [token |-> Ucs4Text(<<"c", "o", "n", "t", "i", "n", "u", "e">>),
      kind |-> "Continue"],
     [token |-> Ucs4Text(<<"e", "x", "i", "t">>),
      kind |-> "Exit"],
     [token |-> Ucs4Text(<<"e", "x", "t", "e", "n", "d", "e", "d", "-", "o", "u", "t", "p", "u", "t">>),
      kind |-> "ExtendedOutput"],
     [token |-> Ucs4Text(<<"l", "a", "y", "o", "u", "t", "-", "c", "h", "a", "n", "g", "e">>),
      kind |-> "LayoutChange"],
     [token |-> Ucs4Text(<<"m", "e", "s", "s", "a", "g", "e">>),
      kind |-> "Message"],
     [token |-> Ucs4Text(<<"o", "u", "t", "p", "u", "t">>),
      kind |-> "Output"],
     [token |-> Ucs4Text(<<"p", "a", "n", "e", "-", "m", "o", "d", "e", "-", "c", "h", "a", "n", "g", "e", "d">>),
      kind |-> "PaneModeChanged"],
     [token |-> Ucs4Text(<<"p", "a", "s", "t", "e", "-", "b", "u", "f", "f", "e", "r", "-", "c", "h", "a", "n", "g", "e", "d">>),
      kind |-> "PasteBufferChanged"],
     [token |-> Ucs4Text(<<"p", "a", "s", "t", "e", "-", "b", "u", "f", "f", "e", "r", "-", "d", "e", "l", "e", "t", "e", "d">>),
      kind |-> "PasteBufferDeleted"],
     [token |-> Ucs4Text(<<"p", "a", "u", "s", "e">>),
      kind |-> "Pause"],
     [token |-> Ucs4Text(<<"s", "e", "s", "s", "i", "o", "n", "-", "c", "h", "a", "n", "g", "e", "d">>),
      kind |-> "SessionChanged"],
     [token |-> Ucs4Text(<<"s", "e", "s", "s", "i", "o", "n", "-", "r", "e", "n", "a", "m", "e", "d">>),
      kind |-> "SessionRenamed"],
     [token |-> Ucs4Text(<<"s", "e", "s", "s", "i", "o", "n", "-", "w", "i", "n", "d", "o", "w", "-", "c", "h", "a", "n", "g", "e", "d">>),
      kind |-> "SessionWindowChanged"],
     [token |-> Ucs4Text(<<"s", "e", "s", "s", "i", "o", "n", "s", "-", "c", "h", "a", "n", "g", "e", "d">>),
      kind |-> "SessionsChanged"],
     [token |-> Ucs4Text(<<"s", "u", "b", "s", "c", "r", "i", "p", "t", "i", "o", "n", "-", "c", "h", "a", "n", "g", "e", "d">>),
      kind |-> "SubscriptionChanged"],
     [token |-> Ucs4Text(<<"u", "n", "l", "i", "n", "k", "e", "d", "-", "w", "i", "n", "d", "o", "w", "-", "a", "d", "d">>),
      kind |-> "UnlinkedWindowAdd"],
     [token |-> Ucs4Text(<<"u", "n", "l", "i", "n", "k", "e", "d", "-", "w", "i", "n", "d", "o", "w", "-", "c", "l", "o", "s", "e">>),
      kind |-> "UnlinkedWindowClose"],
     [token |-> Ucs4Text(<<"u", "n", "l", "i", "n", "k", "e", "d", "-", "w", "i", "n", "d", "o", "w", "-", "r", "e", "n", "a", "m", "e", "d">>),
      kind |-> "UnlinkedWindowRenamed"],
     [token |-> Ucs4Text(<<"w", "i", "n", "d", "o", "w", "-", "a", "d", "d">>),
      kind |-> "WindowAdd"],
     [token |-> Ucs4Text(<<"w", "i", "n", "d", "o", "w", "-", "c", "l", "o", "s", "e">>),
      kind |-> "WindowClose"],
     [token |-> Ucs4Text(<<"w", "i", "n", "d", "o", "w", "-", "p", "a", "n", "e", "-", "c", "h", "a", "n", "g", "e", "d">>),
      kind |-> "WindowPaneChanged"],
     [token |-> Ucs4Text(<<"w", "i", "n", "d", "o", "w", "-", "r", "e", "n", "a", "m", "e", "d">>),
      kind |-> "WindowRenamed"]}

\* a control-mode line without the CR before its end
StripCR(lexed) ==
    IF lexed # <<>> /\ lexed[Len(lexed)] = 13 THEN SubSeq(lexed, 1, Len(lexed) - 1) ELSE lexed

\* the token of a control-mode line: what follows its initial % up to the
\* first space or the end; <<>> for a line that does not begin with %
LineToken(lexed) ==
    LET text == StripCR(lexed)
        n == IF \E k \in 1..Len(text) : text[k] = 32
             THEN (CHOOSE k \in 1..Len(text) :
                       text[k] = 32 /\ \A j \in 1..(k - 1) : text[j] # 32) - 1
             ELSE Len(text)
    IN IF text # <<>> /\ text[1] = 37 THEN SubSeq(text, 2, n) ELSE <<>>

\* the kind a control-mode line constructs, "None" for a line that begins
\* with no known token
LineKind(lexed) ==
    IF \E entry \in tmuxCommandLookup : entry.token = LineToken(lexed)
    THEN (CHOOSE entry \in tmuxCommandLookup : entry.token = LineToken(lexed)).kind
    ELSE "None"

\* the rows of the states the implementation adds for VT52 and for the tmux
\* control mode.  The table does not see the line read so far, so it holds
\* the rows for both outcomes of the token lookup: a line either goes on to a
\* notification parser (TmuxConsume) or is a protocol error (TmuxError), and
\* the end of a line either stays in control mode or, after %exit, leaves it.
\* RowFits picks among them by the line.
AddedRows(state, cc, m) ==
    CASE state = "Vt52Escape" ->
            IF cc = 89 THEN {Row("none", "Vt52CupRow")}
            ELSE {Row("esc_dispatch", GroundState(m))}
      [] state = "Vt52CupRow" -> {Row("none", "Vt52CupColumn")}
      [] state = "Vt52CupColumn" -> {Row("esc_dispatch", GroundState(m))}
      [] state = "TmuxRead" ->
            IF cc = 10 THEN {Row("tmux_parse", Same), Row("tmux_exit", "Ground")}
            ELSE IF cc = 32 THEN {Row("tmux_lex", "TmuxConsume"), Row("tmux_lex", "TmuxError")}
            ELSE {Row("tmux_lex", Same)}
      [] state = "TmuxConsume" ->
            IF cc = 10 THEN {Row("tmux_parse", "TmuxRead"), Row("tmux_exit", "Ground")}
            ELSE {Row("tmux_lex", Same)}
      [] state = "TmuxError" ->
            IF cc = 10 THEN {Row("tmux_reset_notification", "TmuxRead")}
            ELSE {Row("ignore", Same)}

\* the transition rows for an 8-bit input: the action taken and the state
\* switched to
Transitions(state, cc, m) ==
    IF state \in AnsiStates
    THEN IF Anywhere(cc, m) # {} THEN Anywhere(cc, m) ELSE StateRows(state, Fold(cc), m)
    ELSE AddedRows(state, cc, m)

\* the "large sentinel" at which a parameter saturates
MaxArgument == 99
\* bytes passed to receive in a run that may pass any byte
MaxReceive == 3

\* the first parameter character of a sequence opens the first parameter
Open(p) ==
    IF p.count = 0
    THEN [p EXCEPT !.value = <<0>>, !.sub = <<NoSubParam>>, !.count = 1]
    ELSE p

Saturate(v) == IF v > MaxArgument THEN MaxArgument ELSE v

\* addDigit: the digit extends the sub-parameter being read if there is one,
\* else the parameter being read
addDigit(p, dig) ==
    LET q == Open(p)
        i == q.count
    IN IF q.sub[i].count = 0
       THEN [q EXCEPT !.value[i] = Saturate(10 * q.value[i] + dig)]
       ELSE [q EXCEPT !.sub[i].value[q.sub[i].count] =
                          Saturate(10 * q.sub[i].value[q.sub[i].count] + dig)]

\* addArgument: ';' opens the next parameter, unless MAXARGS are open
addArgument(p) ==
    LET q == Open(p)
    IN IF q.count < MAXARGS
       THEN [q EXCEPT !.value = Append(q.value, 0),
                      !.sub = Append(q.sub, NoSubParam),
                      !.count = q.count + 1]
       ELSE q

\* addSub: ':' opens the next sub-parameter of the parameter being read,
\* unless value[1..MAXARGS-1] are all in use
addSub(p) ==
    LET q == Open(p)
        i == q.count
    IN [q EXCEPT !.hasSubParams = TRUE,
                 !.sub[i] = IF q.sub[i].count < MAXARGS - 1
                            THEN [value |-> Append(q.sub[i].value, 0),
                                  count |-> q.sub[i].count + 1]
                            ELSE q.sub[i]]

\* the parameter list a dispatch hands over
ParamList(p) == p.value

\* the states whose entry action is clear
ClearOnEntry == {"Escape", "CsiEntry", "DcsEntry"}

\* useCharset: slot n becomes the invoked one, on both screens
useCharset(charsets, n) ==
    [scrno \in 1..2 |->
        [charsets[scrno] EXCEPT !.cu_cs = n,
                                !.graphic = (charsets[scrno].charset[n + 1] = 48),
                                !.pound = (charsets[scrno].charset[n + 1] = 65)]]

\* setCharset: slot n is designated the character set cs, on both screens
setCharset(charsets, n, cs) ==
    LET designated == [scrno \in 1..2 |-> [charsets[scrno] EXCEPT !.charset[n + 1] = cs]]
    IN useCharset(designated, designated[1].cu_cs)

\* saveCursor (ESC 7): the graphic and pound flags go into their sa_ fields
saveCursor(charsets) ==
    [scrno \in 1..2 |->
        [charsets[scrno] EXCEPT !.sa_graphic = charsets[scrno].graphic,
                                !.sa_pound = charsets[scrno].pound]]

\* restoreCursor (ESC 8): the flags come back from their sa_ fields
restoreCursor(charsets) ==
    [scrno \in 1..2 |->
        [charsets[scrno] EXCEPT !.graphic = charsets[scrno].sa_graphic,
                                !.pound = charsets[scrno].sa_pound]]

\* the character sets after execute or esc_dispatch: SO and SI invoke G1 and
\* G0, ESC ( cs and ESC ) cs designate G0 and G1
DispatchCharset(act, cc) ==
    IF act = "execute" /\ cc \in {14, 15} THEN useCharset(_charset, 15 - cc)
    ELSE IF act = "esc_dispatch" /\ _state \in AnsiStates /\ ~_ignore
            /\ _nIntermediate = 1 /\ _intermediate \in {40, 41}
    THEN setCharset(_charset, _intermediate - 40, cc)
    ELSE IF act = "esc_dispatch" /\ _state \in AnsiStates /\ _nIntermediate = 0 /\ cc = 55
    THEN saveCursor(_charset)
    ELSE IF act = "esc_dispatch" /\ _state \in AnsiStates /\ _nIntermediate = 0 /\ cc = 56
    THEN restoreCursor(_charset)
    ELSE _charset

\* the OSC identifiers that are acted on at once
DirectOsc == {4, 104, 133, 777, 1337}

\* the bytes that end an OSC string with a dispatch: BEL, and ST written
\* ESC \ or 0x9C
OscTerminators == {7, 27, 156}

\* the position of the first ';' of a token, 0 if it has none
FirstSeparator(token) ==
    IF \E k \in 1..Len(token) : token[k] = 59
    THEN CHOOSE k \in 1..Len(token) : token[k] = 59 /\ \A j \in 1..(k - 1) : token[j] # 59
    ELSE 0

\* the attribute a token `<id>;<value>` sets, -1 if it has no id or no ';'
\* (a decoding error) or its id is acted on at once
AttributeId(token) ==
    LET k == FirstSeparator(token)
    IN IF k <= 1 \/ ~AllDigits(SubSeq(token, 1, k - 1)) THEN -1
       ELSE IF DecimalValue(SubSeq(token, 1, k - 1)) \in DirectOsc THEN -1
       ELSE DecimalValue(SubSeq(token, 1, k - 1))

\* the value of a token `<id>;<value>`
AttributeValue(token) == fromUcs4(SubSeq(token, FirstSeparator(token) + 1, Len(token)))

\* processSessionAttributeRequest under a slip that keeps the value an
\* attribute already has
KeepFirstAttribute(pending, token) ==
    IF AttributeId(token) < 0 THEN pending
    ELSE [id \in DOMAIN pending \cup {AttributeId(token)} |->
             IF id \in DOMAIN pending THEN pending[id] ELSE AttributeValue(token)]

\* processSessionAttributeRequest: the token `<id>;<value>` puts value under
\* id into the pending attributes
processSessionAttributeRequest(pending, token) ==
    IF AttributeId(token) < 0 THEN pending
    ELSE [id \in DOMAIN pending \cup {AttributeId(token)} |->
             IF id = AttributeId(token) THEN AttributeValue(token) ELSE pending[id]]

\* the states whose entry action (osc_start, hook) starts a token
TokenOnEntry == {"OscString", "DcsPassthrough"}

\* addToCurrentToken: the code point goes into the next free slot of
\* tokenBuffer; with all MAX_TOKEN_LENGTH slots written it is discarded
addToCurrentToken(token, cc) ==
    IF token.pos < MAX_TOKEN_LENGTH
    THEN [buffer |-> Append(token.buffer, cc), pos |-> token.pos + 1]
    ELSE token

\* RowFits under a slip that takes a line with no known token for %exit
RowFitsUnknownExits(row, cc) ==
    IF _state \in {"TmuxRead", "TmuxConsume"} /\ cc = 10
    THEN (row.act = "tmux_exit") = (LineKind(tmuxLine) \in {"Exit", "None"})
    ELSE IF _state = "TmuxRead" /\ cc = 32
    THEN (row.to = "TmuxConsume") = (LineKind(tmuxLine) # "None")
    ELSE TRUE

\* the row tmux_lex and tmux_parse take for the line read so far: %exit ends
\* the control mode, a known token goes on to its notification parser, any
\* other line is a protocol error
RowFits(row, cc) ==
    IF _state \in {"TmuxRead", "TmuxConsume"} /\ cc = 10
    THEN (row.act = "tmux_exit") = (LineKind(tmuxLine) = "Exit")
    ELSE IF _state = "TmuxRead" /\ cc = 32
    THEN (row.to = "TmuxConsume") = (LineKind(tmuxLine) # "None")
    ELSE TRUE

\* receive of one byte: the row's action, then switchState with the entry
\* action of the new state
receiveChar(cc) ==
    \E row \in {fitting \in Transitions(_state, cc, modes) : RowFits(fitting, cc)} :
        /\ LET token == [buffer |-> tokenBuffer, pos |-> tokenBufferPos]
               next == IF row.to \in TokenOnEntry THEN [buffer |-> <<>>, pos |-> 0]
                       ELSE IF row.act \in {"osc_put", "put"} THEN addToCurrentToken(token, cc)
                       ELSE token
           IN /\ tokenBuffer' = next.buffer
              /\ tokenBufferPos' = next.pos
        /\ _state' = IF row.to = Same THEN _state ELSE row.to
        /\ modes' = IF row.act = "tmux_exit" THEN [modes EXCEPT !.MODE_Tmux = FALSE] ELSE modes
        /\ dispatched' = IF row.act = "csi_dispatch" /\ ~_ignore
                         THEN Append(dispatched, [final |-> cc, params |-> ParamList(params)])
                         ELSE dispatched
        /\ IF _state = "OscString" /\ row.to # Same /\ cc \in OscTerminators
           THEN /\ _pendingSessionAttributesUpdates' =
                       processSessionAttributeRequest(_pendingSessionAttributesUpdates,
                                                      tokenBuffer)
                /\ timerActive' = (timerActive \/ AttributeId(tokenBuffer) >= 0)
           ELSE UNCHANGED <<_pendingSessionAttributesUpdates, timerActive>>
        /\ UNCHANGED <<emitted, written>>
        /\ _charset' = DispatchCharset(row.act, cc)
        /\ tmuxLine' = IF _state \in AnsiStates \/ cc = 10 THEN <<>> ELSE Append(tmuxLine, cc)
        /\ lastCall' = [op |-> "receive", softReset |-> FALSE, again |-> FALSE,
                        before |-> modes]
        /\ UNCHANGED nCalls
        /\ IF row.to \in ClearOnEntry
           THEN /\ params' = NoParams
                /\ _nIntermediate' = 0
                /\ _intermediate' = 0
                /\ _ignore' = FALSE
                /\ privateMarker' = 0
           ELSE IF row.act = "collect"
           THEN /\ _nIntermediate' = IF _nIntermediate < 2 THEN _nIntermediate + 1 ELSE 2
                /\ _intermediate' = IF _nIntermediate = 0 THEN cc ELSE _intermediate
                /\ _ignore' = (_ignore \/ _nIntermediate >= 1)
                /\ UNCHANGED <<params, privateMarker>>
           ELSE IF row.act = "param"
           THEN LET c == Fold(cc) IN
                /\ params' = IF c >= 48 /\ c <= 57 THEN addDigit(params, c - 48)
                              ELSE IF c = 59 THEN addArgument(params)
                              ELSE IF c = 58 THEN addSub(params)
                              ELSE params
                /\ _ignore' = (_ignore \/ (c = 59 /\ Open(params).count = MAXARGS))
                /\ privateMarker' = IF c >= 60 /\ c <= 63 THEN c ELSE privateMarker
                /\ UNCHANGED <<_nIntermediate, _intermediate>>
           ELSE UNCHANGED <<params, _nIntermediate, _intermediate, _ignore, privateMarker>>

\* the emulation with its parser at rest and nothing received
ParserAtRest ==
    /\ TmuxServerManagerInit
    /\ NotificationsIdle
    /\ _state = GroundState(modes)
    /\ _ignore = FALSE
    /\ _nIntermediate = 0
    /\ _intermediate = 0
    /\ privateMarker = 0
    /\ params = NoParams
    /\ _charset = <<DefaultCharCodes, DefaultCharCodes>>
    /\ _pendingSessionAttributesUpdates = NoAttributes
    /\ timerActive = FALSE
    /\ emitted = <<>>
    /\ lastCall = NoCall
    /\ nCalls = 0
    /\ tokenBuffer = <<>>
    /\ tokenBufferPos = 0
    /\ dispatched = <<>>
    /\ nReceived = 0

\* the emulation in some mode, its parser at rest
VtInit ==
    /\ modes \in {ModesSet(set) : set \in SUBSET {"MODE_Ansi", "MODE_Tmux"}}
    /\ ParserAtRest
    /\ tmuxLine = <<>>

\* the bytes passed to receive: a byte of every column of the transition
\* table, and the bytes a row singles out
ReceivedBytes ==
    {0, 7, 10, 14, 24, 27, 32, 48, 57, 58, 59, 60, 63, 64, 80, 88, 89, 91, 93, 127, 128,
     144, 152, 155, 156, 157, 160, 255}

\* receive is passed any of these bytes
ReceiveAny ==
    \E cc \in ReceivedBytes :
        /\ nReceived < MaxReceive
        /\ receiveChar(cc)
        /\ nReceived' = nReceived + 1
        /\ UNCHANGED toReceive
        /\ UNCHANGED managerVars
        /\ UNCHANGED notificationVars

\* a run starts at rest; in the control mode it starts at the beginning of a
\* line or with the token %end read
ParserInit ==
    /\ modes \in {ModesSet(set) : set \in SUBSET {"MODE_Ansi", "MODE_Tmux"}}
    /\ ParserAtRest
    /\ tmuxLine \in {<<>>} \cup (IF modes.MODE_Tmux
                                 THEN {Ucs4Text(<<"%", "e", "n", "d">>)}
                                 ELSE {})
    /\ toReceive = <<>>
    /\ written = <<>>

ParserNext == ReceiveAny

\* the parser under the sequences of up to MaxReceive of these bytes
ParserSpec == ParserInit /\ [][ParserNext]_vars

\* the states, with the two modes the table reads, that have a row with a
\* declared target for each of the 256 inputs
TotalStates ==
    {<<at[1], at[2], at[3]>> : at \in
        {st \in ParserStates \X BOOLEAN \X BOOLEAN :
            \A cc \in 0..255 :
                LET rows == Transitions(st[1], cc, [MODE_Ansi |-> st[2], MODE_Tmux |-> st[3]])
                IN /\ rows # {}
                   /\ \A row \in rows : row.to \in ParserStates \cup {Same}}}

\* C19: after every byte sequence passed to receive the parser is in exactly
\* one of the declared states, and from that state a transition is defined
\* for every 8-bit input.
ParserTotal ==
    /\ Cardinality({state \in ParserStates : state = _state}) = 1
    /\ <<_state, modes.MODE_Ansi, modes.MODE_Tmux>> \in TotalStates

\* the parser has taken three bytes and sits in a string state
StringStateReached == nReceived = MaxReceive /\ _state = "OscString"

(* ------------------------- control sequences --------------------------- *)
\* most parameters (and sub-parameters) in a sequence passed to receive
MaxParams == 18

\* the parameter texts P of the sequences: decimal digits
ParamTexts == {Ucs4Text(t) : t \in {<<"0">>, <<"7">>, <<"4", "2">>}}

\* the lists P1 .. Pn: one text throughout, or the numbers 1 .. n
ParamLists ==
    {[i \in 1..n |-> t] : n \in 1..MaxParams, t \in ParamTexts}
    \cup {[i \in 1..n |-> DecimalText(i)] : n \in 1..MaxParams}

\* P1 ; P2 ; ... ; Pn joined by a separator
RECURSIVE Joined(_, _)
Joined(ps, separator) ==
    IF Len(ps) = 0 THEN <<>>
    ELSE IF Len(ps) = 1 THEN ps[1]
    ELSE ps[1] \o <<separator>> \o Joined(Tail(ps), separator)

\* ESC [ P1 ; P2 ; ... ; Pn m
CsiText(ps) == <<27, 91>> \o Joined(ps, 59) \o <<109>>

\* ESC [ P1 : P2 : ... : Pn m, the parameter P1 with n - 1 sub-parameters
CsiSubText(ps) == <<27, 91>> \o Joined(ps, 58) \o <<109>>

ParamInit ==
    /\ VtInit
    /\ modes = ModesSet({"MODE_Ansi"})
    /\ toReceive \in {CsiText(ps) : ps \in ParamLists} \cup {CsiSubText(ps) : ps \in ParamLists}
    /\ written = <<>>

\* receive is passed the next byte of the sequence
ReceiveNext ==
    /\ nReceived < Len(toReceive)
    /\ receiveChar(toReceive[nReceived + 1])
    /\ nReceived' = nReceived + 1
    /\ UNCHANGED toReceive
    /\ UNCHANGED managerVars
    /\ UNCHANGED notificationVars

ParamNext == ReceiveNext

\* the parser under control sequences with up to MaxParams parameters
ParamSpec == ParamInit /\ [][ParamNext]_vars

\* the first MAXARGS of the decimal values of P1 .. Pn
TruncatedValues(ps) ==
    [i \in 1..(IF Len(ps) < MAXARGS THEN Len(ps) ELSE MAXARGS) |-> DecimalValue(ps[i])]

\* no count is above 16, the number MAXARGS is documented to be
CountsBounded ==
    /\ params.count <= 16
    /\ \A i \in 1..Len(params.sub) : params.sub[i].count <= 16

\* every dispatched list is P1 .. Pn truncated to MAXARGS, and up to MAXARGS
\* parameters are dispatched
DispatchedTruncated ==
    \A ps \in ParamLists :
        (toReceive = CsiText(ps) /\ nReceived = Len(toReceive))
        => /\ \A k \in 1..Len(dispatched) : dispatched[k].params = TruncatedValues(ps)
           /\ Len(ps) <= MAXARGS => Len(dispatched) = 1

MaxPayload == 258

\* the payload lengths tried: none, one, and those around MAX_TOKEN_LENGTH
PayloadLengths == {0, 1} \cup ((MAX_TOKEN_LENGTH - 1)..MaxPayload)

\* a payload of n printable code points, no two neighbours alike
Payload(n) == [i \in 1..n |-> 97 + (i % 26)]

\* the strings: ESC ] payload BEL | ST, and ESC P p payload ST, with ST
\* written ESC \ or 0x9C
TokenStrings ==
    [header : {<<27, 93>>}, payload : {Payload(n) : n \in PayloadLengths},
     terminator : {<<7>>, <<27, 92>>, <<156>>}]
    \cup [header : {<<27, 80, 112>>}, payload : {Payload(n) : n \in PayloadLengths},
          terminator : {<<27, 92>>, <<156>>}]

TokenText(string) == string.header \o string.payload \o string.terminator

TokenInit ==
    /\ VtInit
    /\ modes = ModesSet({"MODE_Ansi"})
    /\ toReceive \in {TokenText(string) : string \in TokenStrings}
    /\ written = <<>>

TokenNext == ReceiveNext

\* the parser under OSC and DCS strings of up to MaxPayload code points
TokenSpec == TokenInit /\ [][TokenNext]_vars

\* the first 256 of the payload's code points that receive has taken
Kept(string, taken) ==
    SubSeq(string.payload, 1, IF taken < 256 THEN taken ELSE 256)

MaxCalls == 3

\* resetModes under a slip that forgets the exception
resetModesAll(m) == [mode \in Modes |-> FALSE]

\* resetModes: resets all modes (except MODE_Allow132Columns)
resetModes(m) ==
    [mode \in Modes |-> IF mode = "MODE_Allow132Columns" THEN m[mode] ELSE FALSE]

\* resetCharset under a slip that saves the flags it is about to clear
resetCharsetSaving(charsets, scrno) ==
    [charsets EXCEPT ![scrno] = [DefaultCharCodes EXCEPT
                                    !.sa_graphic = charsets[scrno].graphic,
                                    !.sa_pound = charsets[scrno].pound]]

\* resetCharset: the character sets of one screen go back to their defaults
resetCharset(charsets, scrno) == [charsets EXCEPT ![scrno] = DefaultCharCodes]

\* reset: aborts the sequence and the control-mode line being read, returns
\* the parser to Ground, clears parameters and buffers, resets the character
\* sets and the modes.  preservePrompt concerns the screen only.  The
\* manager has no operation that empties its queue, so it is left as it is.
Reset(softReset) ==
    /\ nCalls < MaxCalls
    /\ nCalls' = nCalls + 1
    /\ lastCall' = [op |-> "reset", softReset |-> softReset,
                    again |-> (lastCall.op = "reset" /\ lastCall.softReset = softReset),
                    before |-> modes]
    /\ tokenBuffer' = <<>>
    /\ tokenBufferPos' = 0
    /\ _state' = "Ground"
    /\ params' = NoParams
    /\ _ignore' = FALSE
    /\ _nIntermediate' = 0
    /\ _intermediate' = 0
    /\ privateMarker' = 0
    /\ modes' = resetModes(modes)
    /\ _charset' = resetCharset(resetCharset(_charset, 1), 2)
    /\ tmuxLine' = <<>>
    /\ notification' = TmuxNullNotification
    /\ UNCHANGED <<dispatched, toReceive, nReceived>>
    /\ UNCHANGED <<_pendingSessionAttributesUpdates, timerActive, emitted, written>>
    /\ UNCHANGED <<idCall, stream, lineNo, line, received>>
    /\ UNCHANGED managerVars

\* the modes set when a run starts
ModesTried == {"MODE_Ansi", "MODE_Allow132Columns", "MODE_BracketedPaste", "MODE_Tmux"}

\* the sequences a reset falls into: a designated graphics set with the
\* cursor saved, an open CSI, an open OSC, an open DCS, a control-mode line
ResetTexts ==
    {<<27, 40, 48, 27, 55, 27, 91, 49, 59>>, <<27, 93, 48, 59, 97>>, <<27, 80, 112, 97>>,
     <<37, 111, 117, 116>>}

ResetInit ==
    /\ modes \in {ModesSet(set) : set \in SUBSET ModesTried}
    /\ ParserAtRest
    /\ tmuxLine = <<>>
    /\ toReceive \in ResetTexts
    /\ written = <<>>

ResetNext == ReceiveNext \/ \E softReset \in BOOLEAN : Reset(softReset)

\* the emulation under sequences cut short by resets
ResetSpec == ResetInit /\ [][ResetNext]_vars

\* the state a reset is specified to settle
Observable ==
    <<_state, params, _ignore, _nIntermediate, _intermediate, privateMarker, tokenBuffer,
      tokenBufferPos, modes, _charset, tmuxLine, notification>>

\* C22: reset is idempotent: after reset(); reset(); the observable state
\* (parser state, parameter and token buffers, mode bit-vector, charset
\* state, tmux accumulation) is what it was after the first reset().
ResetIdempotent ==
    [][(lastCall.op = "reset" /\ nCalls' = nCalls + 1 /\ lastCall'.op = "reset"
        /\ lastCall'.softReset = lastCall.softReset)
       => Observable' = Observable]_vars

\* two resets in a row, the first of which fell into a run with the graphics
\* set designated and MODE_Allow132Columns set
ResetTwice ==
    /\ lastCall.op = "reset"
    /\ lastCall.again
    /\ nReceived >= 3
    /\ modes.MODE_Allow132Columns

\* C23: resetModes, run on hard reset, resets every mode of the current mode
\* bit-vector and leaves MODE_Allow132Columns at the value it had.
ModesReset ==
    [][(nCalls' = nCalls + 1 /\ lastCall'.op = "reset" /\ ~lastCall'.softReset)
       => \A mode \in Modes :
              modes'[mode] = IF mode = "MODE_Allow132Columns" THEN modes[mode] ELSE FALSE]_vars

\* a hard reset cleared MODE_BracketedPaste and kept MODE_Allow132Columns set
ModesResetSeen ==
    /\ lastCall.op = "reset"
    /\ ~lastCall.softReset
    /\ lastCall.before.MODE_BracketedPaste
    /\ lastCall.before.MODE_Allow132Columns
    /\ modes.MODE_Allow132Columns
    /\ ~modes.MODE_BracketedPaste

(* ------------------------- session attributes -------------------------- *)
\* most OSC strings in a run
MaxOscs == 3

\* updateSessionAttributes: the signals for the pending attributes, by id
RECURSIVE SignalsFor(_)
SignalsFor(pending) ==
    IF DOMAIN pending = {} THEN <<>>
    ELSE LET id == CHOOSE i \in DOMAIN pending : \A j \in DOMAIN pending : i <= j
         IN <<[id |-> id, value |-> pending[id]]>>
            \o SignalsFor([j \in DOMAIN pending \ {id} |-> pending[j]])

\* the coalescing timer fires: updateSessionAttributes emits
\* sessionAttributeChanged for each pending pair and clears the pending ones
UpdateSessionAttributes ==
    /\ timerActive
    /\ nCalls < MaxCalls
    /\ nCalls' = nCalls + 1
    /\ lastCall' = [op |-> "timer", softReset |-> FALSE, again |-> FALSE, before |-> modes]
    /\ emitted' = emitted \o SignalsFor(_pendingSessionAttributesUpdates)
    /\ _pendingSessionAttributesUpdates' = NoAttributes
    /\ timerActive' = FALSE
    /\ UNCHANGED <<_state, _ignore, _nIntermediate, _intermediate, privateMarker, params,
                   modes, _charset, tmuxLine, written, tokenBuffer, tokenBufferPos,
                   dispatched, toReceive, nReceived>>
    /\ UNCHANGED notificationVars
    /\ UNCHANGED managerVars

\* the valid session-attribute strings: title and icon ids, values with and
\* without a ';' of their own, ended by BEL or ST
AttributeStrings ==
    [id : {0, 2}, value : {<<97>>, <<98, 59, 99>>}, terminator : {<<7>>, <<27, 92>>}]

\* ESC ] id ; value terminator
OscText(string) ==
    <<27, 93>> \o DecimalText(string.id) \o <<59>> \o string.value \o string.terminator

RECURSIVE OscTexts(_)
OscTexts(strings) ==
    IF strings = <<>> THEN <<>> ELSE OscText(Head(strings)) \o OscTexts(Tail(strings))

AttributeInit ==
    /\ modes = ModesSet({"MODE_Ansi"})
    /\ ParserAtRest
    /\ tmuxLine = <<>>
    /\ written \in UNION {[1..n -> AttributeStrings] : n \in 1..MaxOscs}
    /\ toReceive = OscTexts(written)

AttributeNext == ReceiveNext \/ UpdateSessionAttributes

\* the emulation under runs of session-attribute strings and timer ticks
AttributeSpec == AttributeInit /\ [][AttributeNext]_vars

\* C24: for every sequence of valid session-attribute OSC strings received
\* before the coalescing timer fires, the flush emits exactly one update per
\* distinct attribute id present, carrying the most recently received value
\* for that id, and leaves the pending map empty.
FlushCoalesces ==
    (lastCall.op = "timer" /\ nCalls = 1 /\ nReceived = Len(toReceive))
    => /\ _pendingSessionAttributesUpdates = NoAttributes
       /\ {emitted[k].id : k \in 1..Len(emitted)} = {written[j].id : j \in 1..Len(written)}
       /\ \A j \in 1..Len(written) :
              /\ Cardinality({k \in 1..Len(emitted) : emitted[k].id = written[j].id}) = 1
              /\ (\A i \in (j + 1)..Len(written) : written[i].id # written[j].id)
                 => \E k \in 1..Len(emitted) :
                        emitted[k] = [id |-> written[j].id, value |-> written[j].value]

\* three strings, two for the same id with different values, then the flush
CoalescedSeen ==
    /\ lastCall.op = "timer"
    /\ nCalls = 1
    /\ nReceived = Len(toReceive)
    /\ Len(written) = 3
    /\ written[1].id = written[3].id
    /\ written[1].value # written[3].value
    /\ written[2].id # written[1].id
    /\ Len(emitted) = 2

(* ------------------------- the control mode ---------------------------- *)
\* most lines in a control-mode stream
MaxLines == 2

\* the lines of a control-mode stream: %exit with and without a reason and
\* with a CR, notifications, lines with an unknown token, lines without %
TmuxLines ==
    {Ucs4Text(<<"%", "e", "x", "i", "t">>),
     Ucs4Text(<<"%", "e", "x", "i", "t", " ", "b", "y", "e">>),
     Ucs4Text(<<"%", "o", "u", "t", "p", "u", "t", " ", "%", "1", " ", "a">>),
     Ucs4Text(<<"%", "b", "o", "g", "u", "s", " ", "x">>),
     Ucs4Text(<<"h", "e", "l", "l", "o", " ", "y", "o", "u">>),
     Ucs4Text(<<>>),
     Ucs4Text(<<"%", "e", "x", "i", "t", "x">>),
     Ucs4Text(<<"%", "s", "e", "s", "s", "i", "o", "n", "s", "-", "c", "h", "a", "n", "g", "e", "d">>),
     Ucs4Text(<<"%", "e", "x", "i", "t">>) \o <<13>>}

\* the lines, each ended by LF, and after them ESC [ m
RECURSIVE TmuxText(_)
TmuxText(lines) ==
    IF lines = <<>> THEN <<27, 91, 109>> ELSE Head(lines) \o <<10>> \o TmuxText(Tail(lines))

TmuxModeInit ==
    /\ modes = ModesSet({"MODE_Ansi", "MODE_Tmux"})
    /\ ParserAtRest
    /\ tmuxLine = <<>>
    /\ written \in UNION {[1..n -> TmuxLines] : n \in 1..MaxLines}
    /\ toReceive = TmuxText(written)

TmuxModeNext == ReceiveNext

\* the parser in the control mode under streams of up to MaxLines lines
TmuxModeSpec == TmuxModeInit /\ [][TmuxModeNext]_vars

\* the part of the line being read that receive has taken
CurrentLine ==
    LET start == IF \E k \in 1..nReceived : toReceive[k] = 10
                 THEN CHOOSE k \in 1..nReceived :
                          toReceive[k] = 10 /\ \A j \in (k + 1)..nReceived : toReceive[j] # 10
                 ELSE 0
    IN SubSeq(toReceive, start + 1, nReceived)

\* the line is %exit, alone or followed by a space and a reason
IsExitLine(text) ==
    LET exit == <<37, 101, 120, 105, 116>>
        bare == IF text # <<>> /\ text[Len(text)] = 13
                THEN SubSeq(text, 1, Len(text) - 1) ELSE text
    IN bare = exit \/ (Len(bare) > 5 /\ SubSeq(bare, 1, 6) = exit \o <<32>>)

\* C25: once the control mode is active (MODE_Tmux set), the parser stays in
\* the line-oriented states TmuxRead/TmuxConsume/TmuxError for every
\* subsequent input, including lines that fail to parse, and regular parsing
\* (Ground) resumes only after a %exit notification.
TmuxModeStays ==
    [][(modes.MODE_Tmux /\ nReceived' = nReceived + 1)
       => IF toReceive[nReceived + 1] = 10 /\ IsExitLine(CurrentLine)
          THEN _state' = "Ground" /\ ~modes'.MODE_Tmux
          ELSE _state' \in {"TmuxRead", "TmuxConsume", "TmuxError"} /\ modes'.MODE_Tmux]_vars

\* a line with an unknown token, then %exit, then ESC [ m: the control mode
\* lasted through the first line and ended with the second
TmuxModeLeft ==
    /\ written = <<Ucs4Text(<<"%", "b", "o", "g", "u", "s", " ", "x">>),
                   Ucs4Text(<<"%", "e", "x", "i", "t">>)>>
    /\ nReceived = Len(toReceive)
    /\ ~modes.MODE_Tmux
    /\ _state = "Ground"
    /\ Len(dispatched) = 1

(* ------------------- notifications with text arguments ----------------- *)
\* longest name, layout or flags text of a line
MaxNameLen == 3

NameAlphabet == {Ucs4(c) : c \in {"a", "b", " "}}
NameTexts == UNION {[1..n -> NameAlphabet] : n \in 0..MaxNameLen}

\* what follows the sigil of an id: digits, the wildcard, a sign, a letter
IdTails == {Ucs4Text(t) : t \in {<<"0">>, <<"7">>, <<"1", "2">>, <<"*">>, <<"-", "9">>, <<"a">>}}

\* texts without a space: a client name, a layout
Words == {Ucs4Text(t) : t \in {<<"a">>, <<"a", "b">>, <<"b", ",", "1">>}}

ArgumentLine(kind, text, client, id, name) ==
    [kind |-> kind, text |-> text, client |-> client, id |-> id, name |-> name]

\* %session-changed $<id> <name>
SessionChangedLine(id, name) ==
    ArgumentLine("SessionChanged", <<Ucs4("$")>> \o id \o <<Ucs4(" ")>> \o name,
                 <<>>, <<Ucs4("$")>> \o id, name)

\* %window-renamed @<id> <name>
WindowRenamedLine(id, name) ==
    ArgumentLine("WindowRenamed", <<Ucs4("@")>> \o id \o <<Ucs4(" ")>> \o name,
                 <<>>, <<Ucs4("@")>> \o id, name)

\* %client-session-changed <client> $<id> <name>
ClientSessionChangedLine(client, id, name) ==
    ArgumentLine("ClientSessionChanged",
                 client \o <<Ucs4(" "), Ucs4("$")>> \o id \o <<Ucs4(" ")>> \o name,
                 client, <<Ucs4("$")>> \o id, name)

\* %layout-change @<w> <layout> <visible-layout> <flags>
LayoutChangeLine(window, layout, visible, flags) ==
    [kind |-> "LayoutChange",
     text |-> <<Ucs4("@")>> \o DecimalText(window) \o <<Ucs4(" ")>> \o layout
              \o <<Ucs4(" ")>> \o visible \o <<Ucs4(" ")>> \o flags,
     window |-> window, layout |-> layout, visible |-> visible, flags |-> flags]

ArgumentStreams ==
    {<<SessionChangedLine(id, name)>> : id \in IdTails, name \in NameTexts}
    \cup {<<WindowRenamedLine(id, name)>> : id \in IdTails, name \in NameTexts}
    \cup {<<ClientSessionChangedLine(client, id, name)>> :
              client \in Words, id \in IdTails, name \in NameTexts}
    \cup {<<LayoutChangeLine(window, layout, visible, flags)>> :
              window \in {1, 12}, layout \in Words, visible \in Words, flags \in NameTexts}
    \cup {<<WindowRenamedLine(Ucs4Text(<<"1">>), name), SessionChangedLine(id, name)>> :
              id \in IdTails, name \in NameTexts}

\* the emulation is about to read a stream of such notifications
ArgumentInit ==
    /\ TmuxServerManagerInit
    /\ idCall = NoIdCall
    /\ stream \in ArgumentStreams
    /\ lineNo = 0
    /\ line = <<>>
    /\ notification = TmuxNullNotification
    /\ received = <<>>
    /\ VtIdle

ArgumentNext ==
    \/ BeginNotification
    \/ PushChar
    \/ Execute

ArgumentSpec == ArgumentInit /\ [][ArgumentNext]_vars

\* C26: for a %layout-change line `@<w> <layout> <visible-layout> <flags>`,
\* execute delivers to receiveLayoutChange the window id w, the string
\* <layout>, the string <visible-layout> and the remainder <flags>.
LayoutDelivered ==
    \A k \in 1..Len(received) :
        stream[k].kind = "LayoutChange"
        => received[k] = [call |-> "receiveLayoutChange",
                          window |-> stream[k].window,
                          windowLayout |-> fromUcs4(stream[k].layout),
                          windowVisibleLayout |-> fromUcs4(stream[k].visible),
                          flags |-> fromUcs4(stream[k].flags)]

\* the sigil a kind's id starts with
Sigil(kind) == IF kind = "WindowRenamed" THEN Ucs4("@") ELSE Ucs4("$")

\* the call a kind's execute makes
Receiver(kind) ==
    CASE kind = "SessionChanged" -> "receiveSessionChanged"
      [] kind = "WindowRenamed" -> "receiveWindowRenamed"
      [] kind = "ClientSessionChanged" -> "receiveClientSessionChanged"

NamedKinds == {"SessionChanged", "WindowRenamed", "ClientSessionChanged"}

\* C27: for %session-changed (`$<id> <name>`), %window-renamed
\* (`@<id> <name>`) and %client-session-changed (`<client> $<id> <name>`),
\* the name delivered by execute is the whole remainder of the line after
\* the preceding arguments, every character in order, embedded spaces
\* included, and the id is delivered as parseTmuxId parses it (an id that
\* parseTmuxId rejects reaches %client-session-changed's receiver as -2).
NameIsRemainder ==
    \A k \in 1..Len(received) :
        stream[k].kind \in NamedKinds
        => LET parsed == parseTmuxId(Sigil(stream[k].kind), stream[k].id)
           IN /\ received[k].call = Receiver(stream[k].kind)
              /\ received[k].name = fromUcs4(stream[k].name)
              /\ received[k].id = IF stream[k].kind = "ClientSessionChanged" /\ ~parsed.ok
                                  THEN -2 ELSE parsed.ret
              /\ stream[k].kind = "ClientSessionChanged"
                 => received[k].client = fromUcs4(stream[k].client)

\* `$12 a b` has been read as %session-changed: id 12 and the name `a b`
NameWithSpaceDelivered ==
    /\ stream = <<SessionChangedLine(Ucs4Text(<<"1", "2">>), Ucs4Text(<<"a", " ", "b">>))>>
    /\ Len(received) = 1
    /\ received[1].id = 12
    /\ received[1].name = Ucs4Text(<<"a", " ", "b">>)

(* --------------------------- command responses ------------------------- *)
\* most calls made on one response notification
MaxOps == 5

\* what the reader of the stream does with a response notification: it
\* opens a body line, passes a code point of the line, reads %end or
\* %error, runs execute
ResponseOps ==
    {[op |-> "body", cc |-> 0], [op |-> "push", cc |-> Ucs4("a")], [op |-> "end", cc |-> 0],
     [op |-> "error", cc |-> 0], [op |-> "execute", cc |-> 0]}

\* %begin has been read: the variant holds a fresh TmuxResponseNotification
ResponseInit ==
    /\ TmuxServerManagerInit
    /\ idCall = NoIdCall
    /\ stream \in UNION {[1..n -> ResponseOps] : n \in 1..MaxOps}
    /\ lineNo = 0
    /\ line = <<>>
    /\ notification = makeNotification("Response")
    /\ received = <<>>
    /\ VtIdle

\* the next call on the notification is op
NextOp(op) ==
    /\ ~crashed
    /\ lineNo < Len(stream)
    /\ stream[lineNo + 1].op = op
    /\ lineNo' = lineNo + 1
    /\ UNCHANGED <<idCall, stream, line>>
    /\ UNCHANGED vtVars

\* a line of the body begins: state Response, a new last line
ResponseBody ==
    /\ NextOp("body")
    /\ notification' = [notification EXCEPT !.state = "Response",
                                            !.commandResponse = Append(@, <<>>)]
    /\ UNCHANGED received
    /\ UNCHANGED managerVars

\* a code point of the line goes to push_char
ResponsePushChar ==
    /\ NextOp("push")
    /\ notification' = push_char(notification, stream[lineNo + 1].cc)
    /\ UNCHANGED received
    /\ UNCHANGED managerVars

\* the line is %end or %error
ResponseCloses ==
    \E closing \in {"end", "error"} :
        /\ NextOp(closing)
        /\ notification' = [notification EXCEPT
                                !.state = IF closing = "end" THEN "End" ELSE "Error"]
        /\ UNCHANGED received
        /\ UNCHANGED managerVars

\* execute: the body goes to the manager by the state, and the state
\* becomes None; the body that was moved from is kept or left empty
ResponseExecute ==
    /\ NextOp("execute")
    /\ LET call == TmuxResponseNotification_execute(notification)
           body == notification.commandResponse
       IN /\ CASE call = "receiveCommandResponse" ->
                     /\ receiveCommandResponse(body)
                     /\ StreamAnswers
                     /\ last' = Saw(call, body, InitialActiveSession, "")
                     /\ UNCHANGED crashed
               [] call = "receiveCommandError" ->
                     /\ receiveCommandError(body)
                     /\ StreamAnswers
                     /\ last' = Saw(call, body, InitialActiveSession, "")
               [] OTHER ->
                     UNCHANGED <<m_currentCommand, m_pendingCommands, m_sessions,
                                 m_activeSession, crashed, sent, invoked, delivered,
                                 nAnswered, last>>
          /\ received' = IF call = "none" THEN received
                         ELSE Append(received, [call |-> call, body |-> body])
          /\ \E kept \in IF call = "none" THEN {TRUE} ELSE BOOLEAN :
                 notification' = [notification EXCEPT
                                     !.state = "None",
                                     !.commandResponse = IF kept THEN @ ELSE <<>>]
    /\ UNCHANGED <<m_initComplete, nextId, nUser>>

ResponseNext ==
    \/ SendCommand
    \/ ResponseBody
    \/ ResponsePushChar
    \/ ResponseCloses
    \/ ResponseExecute

\* a response notification under up to MaxOps calls, while callers send
\* commands
ResponseSpec == ResponseInit /\ [][ResponseNext]_vars

\* C30: execute delivers the accumulated body to receiveCommandResponse in
\* state End, to receiveCommandError in state Error and to neither in any
\* other state; after execute the state is None, so a second execute
\* delivers nothing; push_char appends to the last body line in state
\* Response and changes nothing in any other state.
ResponseContract ==
    [][lineNo' = lineNo + 1
       => LET called == stream[lineNo'] IN
          /\ called.op = "execute"
             => /\ notification'.state = "None"
                /\ received' =
                      IF notification.state = "End"
                      THEN Append(received, [call |-> "receiveCommandResponse",
                                             body |-> notification.commandResponse])
                      ELSE IF notification.state = "Error"
                      THEN Append(received, [call |-> "receiveCommandError",
                                             body |-> notification.commandResponse])
                      ELSE received
                /\ notification.state \notin {"End", "Error"}
                   => UNCHANGED <<invoked, delivered, sent, m_currentCommand>>
          /\ called.op = "push"
             => /\ received' = received
                /\ notification' =
                      IF notification.state = "Response"
                      THEN [notification EXCEPT
                               !.commandResponse =
                                   SubSeq(@, 1, Len(@) - 1)
                                   \o <<Append(@[Len(@)], called.cc)>>]
                      ELSE notification]_vars

\* a body line with one code point, %end, and two executes: the first
\* handed the line to receiveCommandResponse, the second handed nothing over
ExecutedTwice ==
    /\ lineNo = 5
    /\ stream = <<[op |-> "body", cc |-> 0], [op |-> "push", cc |-> Ucs4("a")],
                  [op |-> "end", cc |-> 0], [op |-> "execute", cc |-> 0],
                  [op |-> "execute", cc |-> 0]>>
    /\ received = <<[call |-> "receiveCommandResponse", body |-> <<<<Ucs4("a")>>>>]>>
    /\ invoked = <<[id |-> 1, handler |-> "response"]>>
    /\ notification.state = "None"

(* ------------------- the single-window-id parsers ---------------------- *)
\* one parser of each of the five kinds, each freshly made, about to be fed
\* the same code points
WindowInit ==
    /\ TmuxServerManagerInit
    /\ idCall = NoIdCall
    /\ stream = <<>>
    /\ lineNo = 0
    /\ line \in IdBuffers
    /\ notification = [kind \in OneWindowKinds |-> makeNotification(kind)]
    /\ received = <<>>
    /\ VtIdle

\* the next code point goes to push_char of each of the five
WindowPushChar ==
    /\ lineNo = 0
    /\ line # <<>>
    /\ notification' = [kind \in OneWindowKinds |-> push_char(notification[kind], Head(line))]
    /\ line' = Tail(line)
    /\ UNCHANGED <<idCall, stream, lineNo, received>>
    /\ UNCHANGED managerVars
    /\ UNCHANGED vtVars

\* end of the code points: execute of each of the five
WindowExecute ==
    /\ lineNo = 0
    /\ line = <<>>
    /\ lineNo' = 1
    /\ received' = [kind \in OneWindowKinds |-> notificationExecute(notification[kind])]
    /\ UNCHANGED <<idCall, stream, line, notification>>
    /\ UNCHANGED managerVars
    /\ UNCHANGED vtVars

WindowNext ==
    \/ WindowPushChar
    \/ WindowExecute

\* the five parsers side by side under texts of up to MaxIdLen code points
WindowSpec == WindowInit /\ [][WindowNext]_vars

\* the parsers of these kinds hold the same arg and window, and their
\* executes have delivered the same window id
Agree(kinds) ==
    \A one, other \in kinds :
        /\ notification[one].arg = notification[other].arg
        /\ notification[one].window = notification[other].window
        /\ lineNo = 1 => received[one].window = received[other].window

\* C31: the five single-window-id parsers (%unlinked-window-add,
\* %unlinked-window-close, %unlinked-window-renamed, %window-add,
\* %window-close), started from the same state and fed the same code
\* points, hold the same arg and window after every code point and deliver
\* the same window id on execute.
WindowParsersEquivalent == Agree(OneWindowKinds)

(* ------------------- %session-changed, line to table ------------------- *)
\* the names on the lines
LineNames == {Ucs4Text(t) : t \in {<<"a">>, <<"a", " ", "b">>}}

SessionLines == {SessionChangedLine(id, name) : id \in IdTails, name \in LineNames}

\* a fresh manager whose emulation is about to read up to MaxLines
\* %session-changed lines
SessionLineInit ==
    /\ TmuxServerManagerInit
    /\ idCall = NoIdCall
    /\ stream \in UNION {[1..n -> SessionLines] : n \in 1..MaxLines}
    /\ lineNo = 0
    /\ line = <<>>
    /\ notification = TmuxNullNotification
    /\ received = <<>>
    /\ VtIdle

\* end of a %session-changed line: TmuxSessionChangedNotification::execute
\* calls the manager's receiveSessionChanged, and the variant is dropped
ExecuteSessionChanged ==
    /\ notification.kind = "SessionChanged"
    /\ line = <<>>
    /\ LET call == TmuxSessionChangedNotification_execute(notification)
       IN /\ received' = Append(received, call)
          /\ receiveSessionChanged(call.id, call.name)
          /\ last' = Saw("receiveSessionChanged", <<>>, call.id, call.name)
    /\ delivered' = <<>>
    /\ notification' = TmuxNullNotification
    /\ UNCHANGED <<m_initComplete, crashed, invoked, nAnswered, nUser>>
    /\ UNCHANGED <<idCall, stream, lineNo, line>>
    /\ UNCHANGED vtVars

SessionLineNext ==
    \/ BeginNotification
    \/ PushChar
    \/ ExecuteSessionChanged

SessionLineSpec == SessionLineInit /\ [][SessionLineNext]_vars

\* the id text of a line is <C><digits>
WellFormedId(text) ==
    /\ Len(text) >= 2
    /\ AllDigits(Tail(text))
    /\ parseTmuxSessionId(text).ok

\* the ids of the well-formed lines among the first n of the stream
WellFormedIds(n) ==
    {parseTmuxSessionId(stream[k].id).ret : k \in {j \in 1..n : WellFormedId(stream[j].id)}}

\* C32: a %session-changed line whose session id fails to parse or is the
\* wildcard `$*` creates no session record, issues no command and leaves the
\* active session unchanged; so every key of the session table, and the
\* active session when it is not the initial -1, is a non-negative id taken
\* from a well-formed %session-changed.
MalformedSessionIgnored ==
    [][Len(received') = Len(received) + 1
       => LET id == stream[Len(received')].id
              parsed == parseTmuxSessionId(id)
          IN /\ (~parsed.ok \/ id = <<Ucs4("$"), Ucs4("*")>>)
                => UNCHANGED <<m_sessions, m_activeSession, m_currentCommand,
                               m_pendingCommands, sent, nextId>>
             /\ \A session \in DOMAIN m_sessions' \cup ({m_activeSession'} \ {InitialActiveSession}) :
                    session >= 0 /\ session \in WellFormedIds(Len(received'))]_vars
====
